---- MODULE Spec2Model ----
(***************************************************************************)
(* UMKM sales and stock management: the products, sales_transactions and   *)
(* sales_transaction_items tables and the handlers that write them.        *)
(*                                                                         *)
(* Money.  A numeric(p,2) column holds an exact number of hundredths       *)
(* ("cents"); the model stores that integer.  A JavaScript number that     *)
(* carries money is modelled in thousandths ("mills"), so that a price     *)
(* with more than two decimals can be given and the rounding that the      *)
(* numeric column performs on the text it receives is visible.             *)
(* parseFloat of a numeric text and the product/sum of such numbers are    *)
(* exact to well below half a cent at the magnitudes of the model.         *)
(***************************************************************************)
EXTENDS Integers, Sequences, FiniteSets, TLC

\* ---------------------------------------------------------------- bounds
MaxProducts == 2         \* product rows ever inserted (serial ids 1..MaxProducts)
MaxTx == 2               \* transaction headers ever inserted
MaxItems == 2            \* items in one createSalesTransaction request
MaxItemsLong == 1        \* the same, in the runs of Spec (all five handlers)
NumProcs == 2            \* calls in flight at once in SpecConc
MaxStock == 2            \* largest stock_quantity a request may set
MaxQty == 2              \* largest quantity of one requested item
MaxThreshold == 2        \* largest min_stock_threshold of a catalog
MaxClock == 2            \* milliseconds the clock advances
MaxLedgerTx == 2         \* transactions of a ledger that is reported on
MaxLines == 2            \* line items of one of them

Names == {"A", "B"}
PriceInputs == {15, 30}  \* request prices in mills: 0.015 and 0.030
DefaultMinStockThreshold == 10
IntegerMax == 2147483647 \* the largest value of a PostgreSQL integer column

\* ---------------------------------------------------------------- state
VARIABLES
  productsTable,              \* id -> product row
  salesTransactionsTable,     \* id -> transaction header
  salesTransactionItemsTable, \* id -> line item
  productsSeq,                \* next value of products.id (serial)
  transactionsSeq,            \* next value of sales_transactions.id (serial)
  itemsSeq,                   \* next value of sales_transaction_items.id (serial)
  lastCall,                   \* the request last served and its outcome
  calls,                      \* per connection: the call in flight and its position
  now,                        \* the clock that new Date() and now() read
  ui                          \* the React state of the page of one browser

vars == <<productsTable, salesTransactionsTable, salesTransactionItemsTable,
          productsSeq, transactionsSeq, itemsSeq, lastCall, calls, now, ui>>

store == <<productsTable, salesTransactionsTable, salesTransactionItemsTable>>

\* ---------------------------------------------------------------- helpers
None == <<>>
Some(v) == <<v>>
Opt(S) == {None} \cup {Some(v) : v \in S}

Range(s) == {s[i] : i \in DOMAIN s}

RECURSIVE SumSeq(_)
SumSeq(s) == IF s = <<>> THEN 0 ELSE s[1] + SumSeq(Tail(s))

\* The sum of f over the keys S.
RECURSIVE SumOver(_, _)
SumOver(f, S) ==
  IF S = {} THEN 0
  ELSE LET k == CHOOSE x \in S : TRUE IN f[k] + SumOver(f, S \ {k})

\* The text of a JS number stored into a numeric(p,2) column: rounded to two
\* decimals, ties away from zero (mills -> cents).
ToNumericScale2(mills) == (mills + 5) \div 10

\* parseFloat of the text of a numeric(p,2) column (cents -> mills).
ParseFloat(cents) == cents * 10

\* ---------------------------------------------------------------- time
\* A JS Date, or a timestamp column: the calendar fields in the time zone of
\* the server and of the database session, both taken to be UTC, and the
\* milliseconds since midnight.  month counts from 0 as getMonth() does.
DateTime(year, month, day, ms) ==
  [year |-> year, month |-> month, day |-> day, ms |-> ms]

\* The clock reading at which the model starts: 2024-01-31T00:00:00.000Z.
StartOfClock == DateTime(2024, 0, 31, 0)

\* a < b on timestamps.
Earlier(a, b) ==
  \/ a.year < b.year
  \/ a.year = b.year /\ a.month < b.month
  \/ a.year = b.year /\ a.month = b.month /\ a.day < b.day
  \/ a.year = b.year /\ a.month = b.month /\ a.day = b.day /\ a.ms < b.ms

\* The last millisecond of a day: setHours(23, 59, 59, 999).
EndOfDay == ((23 * 60 + 59) * 60 + 59) * 1000 + 999

IsLeapYear(year) == (year % 4 = 0 /\ year % 100 # 0) \/ year % 400 = 0

\* The days of month `month` (from 0) of `year`.
DaysInMonth(year, month) ==
  IF month = 1 THEN (IF IsLeapYear(year) THEN 29 ELSE 28)
  ELSE IF month \in {3, 5, 8, 10} THEN 30
  ELSE 31

\* How a Date settles calendar fields that are out of range (MakeDay of
\* ECMAScript): month 12 is January of the next year, day 0 the last day of
\* the month before, day 31 of a 30-day month the first of the next, ...
RECURSIVE MakeDate(_, _, _, _)
MakeDate(year, month, day, ms) ==
  IF month > 11 THEN MakeDate(year + 1, month - 12, day, ms)
  ELSE IF month < 0 THEN MakeDate(year - 1, month + 12, day, ms)
  ELSE IF day > DaysInMonth(year, month)
  THEN MakeDate(year, month + 1, day - DaysInMonth(year, month), ms)
  ELSE IF day < 1
  THEN LET py == IF month = 0 THEN year - 1 ELSE year
           pm == IF month = 0 THEN 11 ELSE month - 1
       IN  MakeDate(py, pm, day + DaysInMonth(py, pm), ms)
  ELSE DateTime(year, month, day, ms)

\* new Date("YYYY-MM-DD"): midnight UTC of that day.  The text is kept as its
\* three numbers, month from 1.
ParseDate(text) == DateTime(text.year, text.month - 1, text.day, 0)

\* date.toISOString().split('T')[0]
ToISODate(date) == [year |-> date.year, month |-> date.month + 1, day |-> date.day]

\* date.setHours(23, 59, 59, 999)
SetHoursEndOfDay(date) == [date EXCEPT !.ms = EndOfDay]

\* date.setDate(day), date.setMonth(month), date.setFullYear(year)
SetDate(date, day) == MakeDate(date.year, date.month, day, date.ms)
SetMonth(date, month) == MakeDate(date.year, month, date.day, date.ms)
SetFullYear(date, year) == MakeDate(year, date.month, date.day, date.ms)

\* The days from 0001-01-01, a Monday, to the date, that day counted.
RECURSIVE DaysBeforeMonth(_, _)
DaysBeforeMonth(year, month) ==
  IF month = 0 THEN 0
  ELSE DaysBeforeMonth(year, month - 1) + DaysInMonth(year, month - 1)

DayNumber(date) ==
  365 * (date.year - 1) + ((date.year - 1) \div 4) - ((date.year - 1) \div 100)
    + ((date.year - 1) \div 400) + DaysBeforeMonth(date.year, date.month) + date.day

\* 0 for a Monday ... 6 for a Sunday.
WeekDay(date) == (DayNumber(date) - 1) % 7

\* ---------------------------------------------------------------- requests
ProductIds == 1..MaxProducts

SaleItems == [product_id : ProductIds, quantity : 1..MaxQty]

\* createSalesTransactionInputSchema: a non-empty array of
\* {product_id, quantity > 0}; nothing else of a request reaches the handler.
SaleInputsUpTo(max) == UNION {[1..n -> SaleItems] : n \in 1..max}
SaleInputs == SaleInputsUpTo(MaxItems)

CreateProductInputs ==
  [name : Names, price : PriceInputs, stock_quantity : 0..MaxStock,
   min_stock_threshold : {None}]

UpdateProductInputs ==
  [id : ProductIds, name : Opt(Names), price : Opt(PriceInputs),
   stock_quantity : Opt(0..MaxStock), min_stock_threshold : {None}]

\* What a caller observes of one call: the request, the error thrown ("none"
\* when the call returned) with the ids a "Products not found" message lists,
\* and the three tables as they were when the call arrived.
Call(op, items, response, before) ==
  [op |-> op, items |-> items, error |-> response.error,
   missing |-> response.missing, before |-> before]

Returned == [error |-> "none", missing |-> <<>>]
Thrown(error, missing) == [error |-> error, missing |-> missing]

\* ------------------------------------------------- createSalesTransaction
\* Step 1: the product id of every item, in request order (duplicates kept).
RequestedIds(items) == [i \in DOMAIN items |-> items[i].product_id]

\* Step 2: SELECT ... WHERE id IN (productIds): the rows of the table whose id
\* is requested, each row once.
SelectProducts(table, productIds) ==
  [id \in (DOMAIN table) \cap Range(productIds) |-> table[id]]

\* A variant of NotAllFound: the rows are counted against the distinct ids.
NotAllFoundDistinct(products, productIds) ==
  Cardinality(DOMAIN products) # Cardinality(Range(productIds))

\* products.length !== productIds.length
NotAllFound(products, productIds) ==
  Cardinality(DOMAIN products) # Len(productIds)

\* A variant of MissingIds: productIds.find in place of productIds.filter.
MissingIdsFirst(products, productIds) ==
  LET all == SelectSeq(productIds, LAMBDA id : id \notin DOMAIN products)
  IN  IF all = <<>> THEN <<>> ELSE <<Head(all)>>

\* productIds.filter(id => !foundIds.includes(id))
MissingIds(products, productIds) ==
  SelectSeq(productIds, LAMBDA id : id \notin DOMAIN products)

\* A variant of InsufficientStock: <= in place of <.
InsufficientStockStrict(product, item) == product.stock_quantity <= item.quantity

\* The stock check of one item against the row read in step 2.
InsufficientStock(product, item) == product.stock_quantity < item.quantity

\* Step 3: the loop throws at the first item whose check fails.
AnyInsufficient(products, items) ==
  \E i \in DOMAIN items : InsufficientStock(products[items[i].product_id], items[i])

\* A variant of UnitPrice: the placeholder handler's unit_price: 0.
UnitPricePlaceholder(product) == 0

\* unitPrice = parseFloat(product.price), a JS number (mills).
UnitPrice(product) == ParseFloat(product.price)

\* subtotal = unitPrice * item.quantity, a JS number (mills).
Subtotal(unitPrice, quantity) == unitPrice * quantity

\* Step 3: one entry of transactionItems per requested item.
TransactionItems(products, items) ==
  [i \in DOMAIN items |->
     LET product == products[items[i].product_id]
     IN  [product_id   |-> items[i].product_id,
          product_name |-> product.name,
          quantity     |-> items[i].quantity,
          unit_price   |-> UnitPrice(product),
          subtotal     |-> Subtotal(UnitPrice(product), items[i].quantity)]]

\* A variant of TotalAmount: totalAmount = subtotal in place of +=.
TotalAmountLast(transactionItems) ==
  transactionItems[Len(transactionItems)].subtotal

\* totalAmount += subtotal over the loop, a JS number (mills).
TotalAmount(transactionItems) ==
  SumSeq([i \in DOMAIN transactionItems |-> transactionItems[i].subtotal])

\* Step 4: the header row as the numeric(15,2) column keeps it; the request
\* gives no transaction_date, the column defaults to now().
HeaderRow(totalAmount) ==
  [transaction_date |-> now, total_amount |-> ToNumericScale2(totalAmount)]

\* Step 5: a line item row as the numeric columns keep it.
ItemRow(transactionId, item) ==
  [transaction_id |-> transactionId,
   product_id     |-> item.product_id,
   product_name   |-> item.product_name,
   quantity       |-> item.quantity,
   unit_price     |-> ToNumericScale2(item.unit_price),
   subtotal       |-> ToNumericScale2(item.subtotal)]

\* A variant of InsertRow: the row is keyed by the number of rows, not by the
\* serial, so that it replaces the row last inserted.
InsertRowAtCount(table, id, row) ==
  LET at == IF DOMAIN table = {} THEN id ELSE Cardinality(DOMAIN table)
  IN  [k \in (DOMAIN table) \cup {at} |-> IF k = at THEN row ELSE table[k]]

\* INSERT ... RETURNING of one row under the serial id `id`.
InsertRow(table, id, row) ==
  [k \in (DOMAIN table) \cup {id} |-> IF k = id THEN row ELSE table[k]]

\* INSERT of the n line items under the serial ids firstId, firstId+1, ...
RECURSIVE InsertItems(_, _, _, _)
InsertItems(table, firstId, transactionId, transactionItems) ==
  IF transactionItems = <<>> THEN table
  ELSE InsertItems(InsertRow(table, firstId, ItemRow(transactionId, Head(transactionItems))),
                   firstId + 1, transactionId, Tail(transactionItems))

\* A variant of NewStockQuantity: one unit per item, whatever its quantity.
NewStockQuantityOne(product, item) == product.stock_quantity - 1

\* Step 6, one turn of the loop: newStockQuantity is computed from the row read
\* in step 2 and written to the row with the item's id, if it is there.
NewStockQuantity(product, item) == product.stock_quantity - item.quantity

\* A variant of UpdateStockRow: the UPDATE has lost its WHERE clause.
UpdateStockRowEverywhere(table, id, newStockQuantity) ==
  [k \in DOMAIN table |->
     [table[k] EXCEPT !.stock_quantity = newStockQuantity, !.updated_at = now]]

\* UPDATE products SET stock_quantity = ..., updated_at = new Date() WHERE id
UpdateStockRow(table, id, newStockQuantity) ==
  [k \in DOMAIN table |->
     IF k = id THEN [table[k] EXCEPT !.stock_quantity = newStockQuantity,
                                     !.updated_at = now]
     ELSE table[k]]

RECURSIVE UpdateStocks(_, _, _)
UpdateStocks(table, products, items) ==
  IF items = <<>> THEN table
  ELSE LET item == Head(items)
       IN  UpdateStocks(
             UpdateStockRow(table, item.product_id,
                            NewStockQuantity(products[item.product_id], item)),
             products, Tail(items))

\* What the handler throws, if anything: "Products not found: ..." before
\* "Insufficient stock ...", both before the first write.
SaleResponse(table, items) ==
  LET productIds == RequestedIds(items)
      products   == SelectProducts(table, productIds)
  IN  IF NotAllFound(products, productIds)
      THEN Thrown("ProductsNotFound", MissingIds(products, productIds))
      ELSE IF AnyInsufficient(products, items)
      THEN Thrown("InsufficientStock", <<>>)
      ELSE Returned

\* The whole handler, inside db.transaction: a throw rolls the transaction
\* back, a return commits the header, the line items and the stock updates.
createSalesTransaction(items) ==
  LET productIds == RequestedIds(items)
      products   == SelectProducts(productsTable, productIds)
  IN  \/ /\ SaleResponse(productsTable, items) # Returned
         /\ UNCHANGED <<store, productsSeq, transactionsSeq, itemsSeq>>
      \/ /\ SaleResponse(productsTable, items) = Returned
         /\ transactionsSeq <= MaxTx
         /\ LET transactionItems == TransactionItems(products, items)
            IN  /\ salesTransactionsTable' =
                     InsertRow(salesTransactionsTable, transactionsSeq,
                               HeaderRow(TotalAmount(transactionItems)))
                /\ salesTransactionItemsTable' =
                     InsertItems(salesTransactionItemsTable, itemsSeq,
                                 transactionsSeq, transactionItems)
                /\ productsTable' = UpdateStocks(productsTable, products, items)
                /\ transactionsSeq' = transactionsSeq + 1
                /\ itemsSeq' = itemsSeq + Len(items)
                /\ productsSeq' = productsSeq

\* ------------------------------------------------------------ createProduct
\* The row inserted for a request: the price text is rounded by the
\* numeric(12,2) column, an omitted threshold takes the schema's default.
NewProductRow(input) ==
  [name                |-> input.name,
   price               |-> ToNumericScale2(input.price),
   stock_quantity      |-> input.stock_quantity,
   min_stock_threshold |-> IF input.min_stock_threshold = None
                           THEN DefaultMinStockThreshold
                           ELSE input.min_stock_threshold[1],
   updated_at          |-> now]

createProduct(input) ==
  /\ productsSeq <= MaxProducts
  /\ productsTable' = InsertRow(productsTable, productsSeq, NewProductRow(input))
  /\ productsSeq' = productsSeq + 1
  /\ UNCHANGED <<salesTransactionsTable, salesTransactionItemsTable,
                 transactionsSeq, itemsSeq>>

\* ------------------------------------------------------------ updateProduct
\* updateData: only the fields the request supplies replace the row's.
UpdateData(row, input) ==
  [name                |-> IF input.name = None THEN row.name ELSE input.name[1],
   price               |-> IF input.price = None THEN row.price
                           ELSE ToNumericScale2(input.price[1]),
   stock_quantity      |-> IF input.stock_quantity = None THEN row.stock_quantity
                           ELSE input.stock_quantity[1],
   min_stock_threshold |-> IF input.min_stock_threshold = None
                           THEN row.min_stock_threshold
                           ELSE input.min_stock_threshold[1],
   updated_at          |-> now]

updateProduct(input) ==
  \/ /\ input.id \notin DOMAIN productsTable
     /\ UNCHANGED <<store, productsSeq, transactionsSeq, itemsSeq>>
  \/ /\ input.id \in DOMAIN productsTable
     /\ productsTable' =
          [productsTable EXCEPT ![input.id] = UpdateData(productsTable[input.id], input)]
     /\ UNCHANGED <<salesTransactionsTable, salesTransactionItemsTable,
                    productsSeq, transactionsSeq, itemsSeq>>

\* -------------------------------------------------------------- updateStock
\* A variant of AdjustedStock: a decrease takes one unit less than asked.
AdjustedStockShort(existingProduct, quantity_change) ==
  IF quantity_change < 0
  THEN existingProduct.stock_quantity + quantity_change + 1
  ELSE existingProduct.stock_quantity + quantity_change

\* newStockQuantity = existingProduct.stock_quantity + input.quantity_change
AdjustedStock(existingProduct, quantity_change) ==
  existingProduct.stock_quantity + quantity_change

\* A variant of StockBelowZero: the bound is off by one.
StockBelowMinusOne(newStockQuantity) == newStockQuantity < 0 - 1

\* if (newStockQuantity < 0) throw
StockBelowZero(newStockQuantity) == newStockQuantity < 0

\* The UPDATE of the integer column stock_quantity fails ("integer out of
\* range") when newStockQuantity, an exact JS number, is above IntegerMax.
\* The comparison is written without forming that sum.
ExceedsInteger(existingProduct, quantity_change) ==
  quantity_change > IntegerMax - existingProduct.stock_quantity

\* A variant of UpdateStockError: the InsufficientStock check lets a change
\* pass that empties the stock and more (<= in place of <, on the stock left).
UpdateStockErrorLax(table, product_id, quantity_change) ==
  IF product_id \notin DOMAIN table THEN "ProductNotFound"
  ELSE IF ExceedsInteger(table[product_id], quantity_change) THEN "IntegerOutOfRange"
  ELSE IF AdjustedStock(table[product_id], quantity_change) < 0 - 1
  THEN "InsufficientStock"
  ELSE "none"

\* What the handler throws, if anything ("none" when it returns).  A sum
\* below 0 and a sum above IntegerMax exclude each other, so the order of
\* these two tests does not matter.
UpdateStockError(table, product_id, quantity_change) ==
  IF product_id \notin DOMAIN table THEN "ProductNotFound"
  ELSE IF ExceedsInteger(table[product_id], quantity_change) THEN "IntegerOutOfRange"
  ELSE IF StockBelowZero(AdjustedStock(table[product_id], quantity_change))
  THEN "InsufficientStock"
  ELSE "none"

\* A variant of StockWrite: a change of 0 is answered without the UPDATE.
StockWriteSkipZero(table, product_id, quantity_change) ==
  IF quantity_change = 0 THEN table
  ELSE UpdateStockRow(table, product_id,
                      AdjustedStock(table[product_id], quantity_change))

\* db.update(productsTable).set({stock_quantity, updated_at}).where(id)
StockWrite(table, product_id, quantity_change) ==
  UpdateStockRow(table, product_id,
                 AdjustedStock(table[product_id], quantity_change))

updateStock(product_id, quantity_change) ==
  \/ /\ UpdateStockError(productsTable, product_id, quantity_change) # "none"
     /\ UNCHANGED <<store, productsSeq, transactionsSeq, itemsSeq>>
  \/ /\ UpdateStockError(productsTable, product_id, quantity_change) = "none"
     /\ productsTable' = StockWrite(productsTable, product_id, quantity_change)
     /\ UNCHANGED <<salesTransactionsTable, salesTransactionItemsTable,
                    productsSeq, transactionsSeq, itemsSeq>>

\* ------------------------------------------------------------ deleteProduct
\* SELECT ... FROM sales_transaction_items WHERE product_id = id
SalesItemsOf(itemsTable, id) ==
  {k \in DOMAIN itemsTable : itemsTable[k].product_id = id}

\* DELETE FROM products WHERE id = id
DeleteRow(table, id) == [k \in (DOMAIN table) \ {id} |-> table[k]]

\* A variant of HasSalesHistory: one line item is not yet a history.
HasSalesHistoryOfTwo(itemsTable, id) ==
  Cardinality(SalesItemsOf(itemsTable, id)) > 1

\* salesItems.length > 0
HasSalesHistory(itemsTable, id) ==
  Cardinality(SalesItemsOf(itemsTable, id)) > 0

\* The error the handler throws, "none" when it returns { success: true }.
DeleteProductError(products, itemsTable, id) ==
  IF id \notin DOMAIN products THEN "ProductNotFound"
  ELSE IF HasSalesHistory(itemsTable, id) THEN "ProductHasSalesHistory"
  ELSE "none"

deleteProduct(id) ==
  \/ /\ id \notin DOMAIN productsTable
     /\ UNCHANGED <<store, productsSeq, transactionsSeq, itemsSeq>>
  \/ /\ id \in DOMAIN productsTable
     /\ HasSalesHistory(salesTransactionItemsTable, id)
     /\ UNCHANGED <<store, productsSeq, transactionsSeq, itemsSeq>>
  \/ /\ id \in DOMAIN productsTable
     /\ ~HasSalesHistory(salesTransactionItemsTable, id)
     /\ productsTable' = DeleteRow(productsTable, id)
     /\ UNCHANGED <<salesTransactionsTable, salesTransactionItemsTable,
                    productsSeq, transactionsSeq, itemsSeq>>

\* --------------------------------------------------------- getLowStockItems
\* A variant of IsLowStock: lt in place of lte.
IsLowStockStrict(product) == product.stock_quantity < product.min_stock_threshold

\* .where(lte(productsTable.stock_quantity, productsTable.min_stock_threshold))
IsLowStock(product) == product.stock_quantity <= product.min_stock_threshold

\* One row of the result; difference is computed by the database.
LowStockItem(table, id) ==
  [id                  |-> id,
   name                |-> table[id].name,
   current_stock       |-> table[id].stock_quantity,
   min_stock_threshold |-> table[id].min_stock_threshold,
   difference          |-> table[id].min_stock_threshold - table[id].stock_quantity]

\* .orderBy(desc(min_stock_threshold - stock_quantity)): difference never
\* increases along the rows; rows of equal difference come in any order.
OrderedByDifferenceDesc(rows) ==
  \A i, j \in DOMAIN rows : i < j => rows[i].difference >= rows[j].difference

\* The results the query may give: the selected rows, each once, in an order
\* that ORDER BY admits.
LowStockResults(table) ==
  LET ids == {id \in DOMAIN table : IsLowStock(table[id])}
      n   == Cardinality(ids)
  IN  {[i \in 1..n |-> LowStockItem(table, order[i])] :
         order \in {o \in [1..n -> ids] :
                      /\ \A i, j \in 1..n : i # j => o[i] # o[j]
                      /\ OrderedByDifferenceDesc(
                           [i \in 1..n |-> LowStockItem(table, o[i])])}}

\* ----------------------------------------------------------- getSalesReport
Periods == {"daily", "weekly", "monthly", "yearly"}

\* endDate: the end_date of the request, or the one derived from the period,
\* at 23:59:59.999.
ResolveEndDate(input, startDate) ==
  IF input.end_date # None
  THEN SetHoursEndOfDay(ParseDate(input.end_date[1]))
  ELSE IF input.period = "daily"
  THEN SetHoursEndOfDay(startDate)
  ELSE IF input.period = "weekly"
  THEN SetHoursEndOfDay(SetDate(startDate, startDate.day + 6))
  ELSE IF input.period = "monthly"
  THEN SetHoursEndOfDay(SetDate(SetMonth(startDate, startDate.month + 1), 0))
  ELSE SetHoursEndOfDay(SetDate(SetFullYear(startDate, startDate.year + 1), 0))

\* A variant of InRange: < in place of <= at the end of the range.
InRangeOpenEnd(date, startDate, endDate) ==
  ~Earlier(date, startDate) /\ Earlier(date, endDate)

\* WHERE st.transaction_date >= startDate AND st.transaction_date <= endDate
InRange(date, startDate, endDate) ==
  ~Earlier(date, startDate) /\ ~Earlier(endDate, date)

\* FROM sales_transactions st INNER JOIN sales_transaction_items sti
\* ON st.id = sti.transaction_id WHERE ...: one joined row per line item whose
\* transaction exists and is in the range; the row is named by its line item.
JoinedRows(headers, items, startDate, endDate) ==
  {k \in DOMAIN items :
     /\ items[k].transaction_id \in DOMAIN headers
     /\ InRange(headers[items[k].transaction_id].transaction_date,
                startDate, endDate)}

\* COUNT(DISTINCT st.id) over a set of joined rows.
CountDistinctId(items, rows) ==
  Cardinality({items[k].transaction_id : k \in rows})

\* SUM(DISTINCT st.total_amount) over a set of joined rows: every amount that
\* occurs is added once (cents).
SumDistinctAmount(headers, items, rows) ==
  LET amounts == {headers[items[k].transaction_id].total_amount : k \in rows}
  IN  SumOver([a \in amounts |-> a], amounts)

\* SUM(st.total_amount) over a set of joined rows: every row adds the amount
\* of its transaction (cents).
SumAmount(headers, items, rows) ==
  SumOver([k \in rows |-> headers[items[k].transaction_id].total_amount], rows)

\* SUM(sti.quantity) over a set of joined rows.
SumQuantity(items, rows) == SumOver([k \in rows |-> items[k].quantity], rows)

\* The summary of the report; the average is kept as the two numbers the
\* handler divides.
Summary(headers, items, rows) ==
  LET totalTransactions == CountDistinctId(items, rows)
      totalRevenue      == ParseFloat(SumDistinctAmount(headers, items, rows))
  IN  [total_transactions |-> totalTransactions,
       total_revenue      |-> totalRevenue,
       total_items_sold   |-> SumQuantity(items, rows),
       average_transaction_value |->
         IF totalTransactions > 0
         THEN [dividend |-> totalRevenue, divisor |-> totalTransactions]
         ELSE [dividend |-> 0, divisor |-> 1]]

\* groupByClause: DATE(transaction_date) or DATE_TRUNC(week | month | year,
\* transaction_date); a week starts on its Monday.
PeriodDate(period, date) ==
  IF period = "daily" THEN DateTime(date.year, date.month, date.day, 0)
  ELSE IF period = "weekly"
  THEN MakeDate(date.year, date.month, date.day - WeekDay(date), 0)
  ELSE IF period = "monthly" THEN DateTime(date.year, date.month, 1, 0)
  ELSE DateTime(date.year, 0, 1, 0)

\* ORDER BY period_date ASC of a set of dates.
RECURSIVE Ascending(_)
Ascending(dates) ==
  IF dates = {} THEN <<>>
  ELSE LET first == CHOOSE d \in dates : \A e \in dates \ {d} : Earlier(d, e)
       IN  <<first>> \o Ascending(dates \ {first})

\* One row of the period query, as the handler maps it.
PeriodRow(headers, items, rows, periodDate) ==
  [date               |-> ToISODate(periodDate),
   total_transactions |-> CountDistinctId(items, rows),
   total_revenue      |-> ParseFloat(SumAmount(headers, items, rows)),
   total_items_sold   |-> SumQuantity(items, rows)]

\* GROUP BY groupByClause ORDER BY period_date ASC
PeriodData(headers, items, rows, period) ==
  LET periodOf(k) ==
        PeriodDate(period, headers[items[k].transaction_id].transaction_date)
      periodDates == Ascending({periodOf(k) : k \in rows})
  IN  [i \in DOMAIN periodDates |->
         PeriodRow(headers, items, {k \in rows : periodOf(k) = periodDates[i]},
                   periodDates[i])]

\* The report the handler returns.
SalesReport(headers, items, input) ==
  LET startDate == ParseDate(input.start_date)
      endDate   == ResolveEndDate(input, startDate)
      rows      == JoinedRows(headers, items, startDate, endDate)
  IN  [period     |-> input.period,
       start_date |-> ToISODate(startDate),
       end_date   |-> ToISODate(endDate),
       summary    |-> Summary(headers, items, rows),
       data       |-> PeriodData(headers, items, rows, input.period)]

\* ----------------------------------------------------- getProductsWithSales
\* A variant of TotalSold: the number of line items, not the sum of their
\* quantities.
TotalSoldLines(itemsTable, id) == Cardinality(SalesItemsOf(itemsTable, id))

\* COALESCE(SUM(sales_transaction_items.quantity), 0) of the group of a
\* product: the left join pairs the product with every line item of its id.
TotalSold(itemsTable, id) ==
  SumOver([k \in SalesItemsOf(itemsTable, id) |-> itemsTable[k].quantity],
          SalesItemsOf(itemsTable, id))

\* A variant of TotalRevenue: the unit prices are added, not the subtotals.
TotalRevenueOfUnits(itemsTable, id) ==
  SumOver([k \in SalesItemsOf(itemsTable, id) |-> itemsTable[k].unit_price],
          SalesItemsOf(itemsTable, id))

\* COALESCE(SUM(sales_transaction_items.subtotal), 0) of the group (cents).
TotalRevenue(itemsTable, id) ==
  SumOver([k \in SalesItemsOf(itemsTable, id) |-> itemsTable[k].subtotal],
          SalesItemsOf(itemsTable, id))

\* One row of the result, as the handler maps it.
ProductWithSales(products, itemsTable, id) ==
  [id                  |-> id,
   name                |-> products[id].name,
   price               |-> ParseFloat(products[id].price),
   stock_quantity      |-> products[id].stock_quantity,
   min_stock_threshold |-> products[id].min_stock_threshold,
   updated_at          |-> products[id].updated_at,
   total_sold          |-> TotalSold(itemsTable, id),
   total_revenue       |-> ParseFloat(TotalRevenue(itemsTable, id))]

\* orderBy(desc(COALESCE(SUM(subtotal), 0)))
OrderedByRevenueDesc(rows) ==
  \A i, j \in DOMAIN rows : i < j => rows[i].total_revenue >= rows[j].total_revenue

\* The results the query may return: one row per product (GROUP BY
\* products.id), in any order the ORDER BY admits.
ProductsWithSalesResults(products, itemsTable) ==
  LET ids == DOMAIN products
      n   == Cardinality(ids)
  IN  {[i \in 1..n |-> ProductWithSales(products, itemsTable, order[i])] :
         order \in {o \in [1..n -> ids] :
                      /\ \A i, j \in 1..n : i # j => o[i] # o[j]
                      /\ OrderedByRevenueDesc(
                           [i \in 1..n |-> ProductWithSales(products, itemsTable, o[i])])}}

\* ----------------------------------------------------- getSalesTransactions
\* A line item as the handler returns it, numeric columns as JS numbers.
ReturnedItem(itemsTable, k) ==
  [id           |-> k,
   transaction_id |-> itemsTable[k].transaction_id,
   product_id   |-> itemsTable[k].product_id,
   product_name |-> itemsTable[k].product_name,
   quantity     |-> itemsTable[k].quantity,
   unit_price   |-> ParseFloat(itemsTable[k].unit_price),
   subtotal     |-> ParseFloat(itemsTable[k].subtotal)]

\* One entry of transactionsMap: the header with the line items the left
\* join paired with it, in an order the query does not fix (a set here).
TransactionWithItems(headers, itemsTable, t) ==
  [id               |-> t,
   transaction_date |-> headers[t].transaction_date,
   total_amount     |-> ParseFloat(headers[t].total_amount),
   items            |-> {ReturnedItem(itemsTable, k) :
                           k \in {j \in DOMAIN itemsTable :
                                    itemsTable[j].transaction_id = t}}]

\* orderBy(desc(transaction_date)); the Map keeps the order of first
\* appearance.
OrderedByDateDesc(rows) ==
  \A i, j \in DOMAIN rows :
    i < j => ~Earlier(rows[i].transaction_date, rows[j].transaction_date)

\* The results the handler may return: every header once, in any order the
\* ORDER BY admits.
SalesTransactionsResults(headers, itemsTable) ==
  LET ids == DOMAIN headers
      n   == Cardinality(ids)
  IN  {[i \in 1..n |-> TransactionWithItems(headers, itemsTable, order[i])] :
         order \in {o \in [1..n -> ids] :
                      /\ \A i, j \in 1..n : i # j => o[i] # o[j]
                      /\ OrderedByDateDesc(
                           [i \in 1..n |-> TransactionWithItems(headers, itemsTable, o[i])])}}

\* ------------------------------------------------------- the specification
EmptyTable == [k \in {} |-> 0]

NoCall == Call("none", <<>>, Returned, <<>>)

\* The page before it has loaded anything: the useState initial values of App,
\* SalesTransaction and InventoryManagement.
Unmounted ==
  [products |-> EmptyTable, transactions |-> <<>>, isLoading |-> FALSE,
   cart |-> <<>>, isCreateDialogOpen |-> FALSE,
   isUpdateDialogOpen |-> FALSE, alert |-> None]

Procs == 1..NumProcs

\* A connection with no call in flight.  In a call: the request, the rows read
\* in step 2, and the writes of the open database transaction, which no other
\* connection sees before COMMIT.
Idle ==
  [pc |-> "idle", items |-> <<>>, products |-> EmptyTable, error |-> "none",
   txHeader |-> EmptyTable, txItems |-> EmptyTable, txStock |-> EmptyTable, i |-> 1]

Init ==
  /\ now = StartOfClock
  /\ productsTable = EmptyTable
  /\ salesTransactionsTable = EmptyTable
  /\ salesTransactionItemsTable = EmptyTable
  /\ productsSeq = 1
  /\ transactionsSeq = 1
  /\ itemsSeq = 1
  /\ lastCall = NoCall
  /\ calls = [p \in Procs |-> Idle]
  /\ ui = Unmounted

\* Calls served one at a time, the store alone observed.
CreateProduct ==
  \E input \in CreateProductInputs : createProduct(input) /\ UNCHANGED <<lastCall, calls, now, ui>>
UpdateProduct ==
  \E input \in UpdateProductInputs : updateProduct(input) /\ UNCHANGED <<lastCall, calls, now, ui>>
UpdateStock ==
  \E product_id \in ProductIds, quantity_change \in (0 - MaxQty)..MaxQty :
    /\ updateStock(product_id, quantity_change)
    /\ \A id \in DOMAIN productsTable' :
         productsTable'[id].stock_quantity <= MaxStock
    /\ UNCHANGED <<lastCall, calls, now, ui>>
CreateSalesTransaction ==
  \E items \in SaleInputsUpTo(MaxItemsLong) :
    createSalesTransaction(items) /\ UNCHANGED <<lastCall, calls, now, ui>>
DeleteProduct ==
  \E id \in ProductIds : deleteProduct(id) /\ UNCHANGED <<lastCall, calls, now, ui>>

Next ==
  \/ CreateProduct
  \/ UpdateProduct
  \/ UpdateStock
  \/ CreateSalesTransaction
  \/ DeleteProduct

Spec == Init /\ [][Next]_vars

\* The catalog filled by createProduct and sold from by createSalesTransaction,
\* each call observed together with its outcome.
CatalogCall ==
  \E input \in CreateProductInputs :
    /\ createProduct(input)
    /\ lastCall' = Call("createProduct", <<>>, Returned, store)
    /\ UNCHANGED <<calls, now, ui>>
SaleCall ==
  \E items \in SaleInputs :
    /\ createSalesTransaction(items)
    /\ lastCall' = Call("createSalesTransaction", items,
                        SaleResponse(productsTable, items), store)
    /\ UNCHANGED <<calls, now, ui>>

NextSale ==
  \/ CatalogCall
  \/ SaleCall

SpecSale == Init /\ [][NextSale]_vars


\* ------------------------------------------------ calls that overlap in time
\* Each createSalesTransaction call runs on its own connection inside
\* db.transaction, at the isolation level PostgreSQL gives a transaction that
\* asks for none (READ COMMITTED): a SELECT reads the rows committed so far
\* and takes no lock; an UPDATE locks its row until the transaction ends and
\* waits while another open transaction holds that lock; the inserts and
\* updates of a transaction reach the tables at COMMIT, none at ROLLBACK;
\* serial ids are drawn at the INSERT and never given back.
InTransaction(p) ==
  calls[p].pc \in {"insertHeader", "insertItems", "updateStock", "commit"}

\* The connections, other than p, whose open transaction has written row id.
LockHolders(p, id) ==
  {q \in Procs \ {p} : InTransaction(q) /\ id \in DOMAIN calls[q].txStock}

\* The connections whose lock the UPDATE of p's current loop turn waits for
\* (none: the UPDATE can run).
WaitsFor(p) ==
  IF calls[p].pc = "updateStock"
  THEN LockHolders(p, calls[p].items[calls[p].i].product_id)
  ELSE {}

\* The rows of a table with the rows of an open transaction added at COMMIT.
WithRows(table, rows) ==
  [k \in (DOMAIN table) \cup (DOMAIN rows) |->
     IF k \in DOMAIN rows THEN rows[k] ELSE table[k]]

\* The stock updates of an open transaction applied at COMMIT to the rows
\* that are there.
RECURSIVE WithStock(_, _, _)
WithStock(table, txStock, ids) ==
  IF ids = {} THEN table
  ELSE LET id == CHOOSE x \in ids : TRUE
       IN  WithStock(UpdateStockRow(table, id, txStock[id]), txStock, ids \ {id})

\* Steps 1-3: the request arrives, the transaction begins, the products are
\* read and checked; a throw rolls the (still empty) transaction back.
SaleSelect(p, items) ==
  /\ calls[p].pc = "idle"
  /\ LET response == SaleResponse(productsTable, items)
     IN  calls' = [calls EXCEPT ![p] =
           [Idle EXCEPT
              !.pc = IF response = Returned THEN "insertHeader" ELSE "failed",
              !.items = items,
              !.error = response.error,
              !.products = SelectProducts(productsTable, RequestedIds(items))]]
  /\ UNCHANGED <<store, productsSeq, transactionsSeq, itemsSeq, lastCall, now, ui>>

\* Step 4: INSERT of the header.
SaleInsertHeader(p) ==
  /\ calls[p].pc = "insertHeader"
  /\ transactionsSeq <= MaxTx
  /\ calls' = [calls EXCEPT
       ![p].pc = "insertItems",
       ![p].txHeader =
          InsertRow(EmptyTable, transactionsSeq,
                    HeaderRow(TotalAmount(TransactionItems(calls[p].products,
                                                           calls[p].items))))]
  /\ transactionsSeq' = transactionsSeq + 1
  /\ UNCHANGED <<store, productsSeq, itemsSeq, lastCall, now, ui>>

\* Step 5: INSERT of the line items.
SaleInsertItems(p) ==
  /\ calls[p].pc = "insertItems"
  /\ calls' = [calls EXCEPT
       ![p].pc = "updateStock",
       ![p].i = 1,
       ![p].txItems =
          InsertItems(EmptyTable, itemsSeq,
                      CHOOSE t \in DOMAIN calls[p].txHeader : TRUE,
                      TransactionItems(calls[p].products, calls[p].items))]
  /\ itemsSeq' = itemsSeq + Len(calls[p].items)
  /\ UNCHANGED <<store, productsSeq, transactionsSeq, lastCall, now, ui>>

\* Step 6, one turn of the loop: the UPDATE of one product row, once no other
\* open transaction holds the row; the value written was computed from the
\* row read in step 2.
SaleUpdateStock(p) ==
  /\ calls[p].pc = "updateStock"
  /\ WaitsFor(p) = {}
  /\ LET item == calls[p].items[calls[p].i]
         id   == item.product_id
     IN  calls' = [calls EXCEPT
           ![p].pc = IF calls[p].i = Len(calls[p].items) THEN "commit" ELSE "updateStock",
           ![p].i = calls[p].i + 1,
           ![p].txStock =
              IF id \in DOMAIN productsTable
              THEN WithRows(calls[p].txStock,
                            [k \in {id} |-> NewStockQuantity(calls[p].products[id], item)])
              ELSE calls[p].txStock]
  /\ UNCHANGED <<store, productsSeq, transactionsSeq, itemsSeq, lastCall, now, ui>>

\* The callback returns: COMMIT.
SaleCommit(p) ==
  /\ calls[p].pc = "commit"
  /\ salesTransactionsTable' = WithRows(salesTransactionsTable, calls[p].txHeader)
  /\ salesTransactionItemsTable' = WithRows(salesTransactionItemsTable, calls[p].txItems)
  /\ productsTable' =
       WithStock(productsTable, calls[p].txStock,
                 (DOMAIN calls[p].txStock) \cap (DOMAIN productsTable))
  /\ calls' = [calls EXCEPT ![p].pc = "done"]
  /\ UNCHANGED <<productsSeq, transactionsSeq, itemsSeq, lastCall, now, ui>>

\* Two transactions each waiting for a row the other holds: PostgreSQL aborts
\* one of them, which rolls back and throws.
SaleDeadlock(p) ==
  /\ \E q \in WaitsFor(p) : p \in WaitsFor(q)
  /\ calls' = [calls EXCEPT
       ![p].pc = "failed", ![p].error = "Deadlock",
       ![p].txHeader = EmptyTable, ![p].txItems = EmptyTable,
       ![p].txStock = EmptyTable]
  /\ UNCHANGED <<store, productsSeq, transactionsSeq, itemsSeq, lastCall, now, ui>>

\* A catalog as createProduct calls leave it: MaxProducts products, of any
\* admissible stock.
Catalogs ==
  {[id \in ProductIds |->
      NewProductRow([name |-> IF id = 1 THEN "A" ELSE "B",
                     price |-> IF id = 1 THEN 15 ELSE 30,
                     stock_quantity |-> stock[id],
                     min_stock_threshold |-> None])] :
     stock \in [ProductIds -> 0..MaxStock]}

\* lastCall.before keeps the tables as they were before the overlapping calls.
InitConc ==
  /\ now = StartOfClock
  /\ productsTable \in Catalogs
  /\ salesTransactionsTable = EmptyTable
  /\ salesTransactionItemsTable = EmptyTable
  /\ productsSeq = MaxProducts + 1
  /\ transactionsSeq = 1
  /\ itemsSeq = 1
  /\ lastCall = Call("none", <<>>, Returned,
                     <<productsTable, salesTransactionsTable, salesTransactionItemsTable>>)
  /\ calls = [p \in Procs |-> Idle]
  /\ ui = Unmounted

NextConc ==
  \E p \in Procs :
    \/ \E items \in SaleInputs : SaleSelect(p, items)
    \/ SaleInsertHeader(p)
    \/ SaleInsertItems(p)
    \/ SaleUpdateStock(p)
    \/ SaleCommit(p)
    \/ SaleDeadlock(p)

SpecConc == InitConc /\ [][NextConc]_vars

\* --------------------------- updateStock and deleteProduct, statement-wise
\* Both handlers use db directly: each statement is a transaction of its own,
\* committed when it returns; its UPDATE or DELETE of a row waits while an
\* open transaction holds the lock of that row.

\* updateStock, the SELECT and the checks: the sum is computed from the row
\* read here.
StockSelect(p, product_id, quantity_change) ==
  /\ calls[p].pc = "idle"
  /\ LET error == UpdateStockError(productsTable, product_id, quantity_change)
     IN  calls' = [calls EXCEPT ![p] =
           [Idle EXCEPT
              !.pc = IF error = "none" THEN "stockWrite" ELSE "stockFailed",
              !.items = <<[product_id |-> product_id,
                           quantity_change |-> quantity_change]>>,
              !.error = error,
              !.products = SelectProducts(productsTable, <<product_id>>)]]
  /\ UNCHANGED <<store, productsSeq, transactionsSeq, itemsSeq, lastCall, now, ui>>

\* updateStock, the UPDATE ... RETURNING and the return: the sum computed from
\* the row read before is written to the row as it is now; when the row is
\* gone, nothing is written and reading updatedProducts[0].price throws.
StockUpdate(p) ==
  /\ calls[p].pc = "stockWrite"
  /\ LET id     == calls[p].items[1].product_id
         change == calls[p].items[1].quantity_change
     IN  /\ LockHolders(p, id) = {}
         /\ productsTable' =
              IF id \in DOMAIN productsTable
              THEN UpdateStockRow(productsTable, id,
                                  AdjustedStock(calls[p].products[id], change))
              ELSE productsTable
         /\ calls' = [calls EXCEPT
              ![p].pc = IF id \in DOMAIN productsTable
                        THEN "stockDone" ELSE "stockFailed",
              ![p].error = IF id \in DOMAIN productsTable
                           THEN "none" ELSE "TypeError"]
  /\ UNCHANGED <<salesTransactionsTable, salesTransactionItemsTable,
                 productsSeq, transactionsSeq, itemsSeq, lastCall, now, ui>>

\* deleteProduct, the SELECT of the product.
DeleteSelectProduct(p, id) ==
  /\ calls[p].pc = "idle"
  /\ calls' = [calls EXCEPT ![p] =
       [Idle EXCEPT
          !.pc = IF id \in DOMAIN productsTable
                 THEN "deleteSelectItems" ELSE "deleteFailed",
          !.items = <<[product_id |-> id]>>,
          !.error = IF id \in DOMAIN productsTable THEN "none"
                    ELSE "ProductNotFound"]]
  /\ UNCHANGED <<store, productsSeq, transactionsSeq, itemsSeq, lastCall, now, ui>>

\* deleteProduct, the SELECT of the line items committed so far.
DeleteSelectItems(p) ==
  /\ calls[p].pc = "deleteSelectItems"
  /\ LET sold == HasSalesHistory(salesTransactionItemsTable,
                                 calls[p].items[1].product_id)
     IN  calls' = [calls EXCEPT
           ![p].pc = IF sold THEN "deleteFailed" ELSE "deleteRow",
           ![p].error = IF sold THEN "ProductHasSalesHistory" ELSE "none"]
  /\ UNCHANGED <<store, productsSeq, transactionsSeq, itemsSeq, lastCall, now, ui>>

\* deleteProduct, the DELETE and the return.
DeleteDelete(p) ==
  /\ calls[p].pc = "deleteRow"
  /\ LockHolders(p, calls[p].items[1].product_id) = {}
  /\ productsTable' = DeleteRow(productsTable, calls[p].items[1].product_id)
  /\ calls' = [calls EXCEPT ![p].pc = "deleteDone"]
  /\ UNCHANGED <<salesTransactionsTable, salesTransactionItemsTable,
                 productsSeq, transactionsSeq, itemsSeq, lastCall, now, ui>>

\* One call on each connection: a sale, a stock adjustment or a deletion.
NextOverlap ==
  \E p \in Procs :
    \/ \E items \in SaleInputs : SaleSelect(p, items)
    \/ SaleInsertHeader(p)
    \/ SaleInsertItems(p)
    \/ SaleUpdateStock(p)
    \/ SaleCommit(p)
    \/ SaleDeadlock(p)
    \/ \E product_id \in ProductIds, quantity_change \in (0 - MaxQty)..MaxQty :
         StockSelect(p, product_id, quantity_change)
    \/ StockUpdate(p)
    \/ \E id \in ProductIds : DeleteSelectProduct(p, id)
    \/ DeleteSelectItems(p)
    \/ DeleteDelete(p)

SpecOverlap == InitConc /\ [][NextOverlap]_vars

\* ----------------------------------------- the createSalesTransaction route
\* What a client may send as items: any array of {product_id, quantity > 0},
\* the empty array included.
SaleRequests == UNION {[1..n -> SaleItems] : n \in 0..MaxItems}

\* A variant of ItemsSchemaAccepts: .min(0) in place of .min(1).
ItemsSchemaAcceptsEmpty(items) == Len(items) >= 0

\* createSalesTransactionInputSchema: items: z.array(...).min(1, ...)
ItemsSchemaAccepts(items) == Len(items) >= 1

\* publicProcedure.input(schema).mutation(resolver): the input is parsed
\* first; a parse failure is answered without the resolver, and so the
\* handler, running.  Requests are served one at a time here: calls[p] keeps
\* what the serving connection p did ("rejected" before the resolver, or the
\* rows the handler read and how it ended), every other connection is idle.
SaleRoute(p, items) ==
  \/ /\ ~ItemsSchemaAccepts(items)
     /\ lastCall' = Call("createSalesTransaction", items,
                         Thrown("EmptyItemList", <<>>), store)
     /\ calls' = [[q \in Procs |-> Idle] EXCEPT ![p] =
           [Idle EXCEPT !.pc = "rejected", !.items = items,
                        !.error = "EmptyItemList"]]
     /\ UNCHANGED <<store, productsSeq, transactionsSeq, itemsSeq, now, ui>>
  \/ /\ ItemsSchemaAccepts(items)
     /\ createSalesTransaction(items)
     /\ lastCall' = Call("createSalesTransaction", items,
                         SaleResponse(productsTable, items), store)
     /\ calls' = [[q \in Procs |-> Idle] EXCEPT ![p] =
           [Idle EXCEPT
              !.pc = IF SaleResponse(productsTable, items) = Returned
                     THEN "done" ELSE "failed",
              !.items = items,
              !.error = SaleResponse(productsTable, items).error,
              !.products = SelectProducts(productsTable, RequestedIds(items))]]
     /\ UNCHANGED <<now, ui>>

NextRoute == \E p \in Procs, items \in SaleRequests : SaleRoute(p, items)

SpecRoute == InitConc /\ [][NextRoute]_vars

\* ------------------------------------------------- stock routes, observed
\* What a caller observes of a call to one of the other routes: the request,
\* the error thrown ("none" when the call returned), the value returned, the
\* three tables as they were when the call arrived and the clock reading at
\* which it was served; where two calls in a row are observed, the call served
\* just before it as well.
Reply(op, request, error, result, before, previous) ==
  [op |-> op, request |-> request, error |-> error, result |-> result,
   before |-> before, at |-> now, previous |-> previous]

Unobserved == [op |-> "unobserved"]

Previous(call) ==
  IF call.op = "updateStock"
  THEN [op |-> call.op, request |-> call.request, error |-> call.error,
        before |-> call.before]
  ELSE [op |-> call.op]

\* The stock levels of the catalogs below: a few units, or close to the
\* largest value the integer column holds.
StockLevels == (0..MaxStock) \cup {IntegerMax - 1, IntegerMax}

Thresholds == 1..MaxThreshold

\* Catalogs as createProduct calls leave them, of any of these stock levels
\* and thresholds.
StockCatalogs ==
  {[id \in ProductIds |->
      NewProductRow([name |-> IF id = 1 THEN "A" ELSE "B",
                     price |-> IF id = 1 THEN 15 ELSE 30,
                     stock_quantity |-> stock[id],
                     min_stock_threshold |-> Some(threshold[id])])] :
     stock \in [ProductIds -> StockLevels],
     threshold \in [ProductIds -> Thresholds]}

InitStock ==
  /\ now = StartOfClock
  /\ productsTable \in StockCatalogs
  /\ salesTransactionsTable = EmptyTable
  /\ salesTransactionItemsTable = EmptyTable
  /\ productsSeq = MaxProducts + 1
  /\ transactionsSeq = 1
  /\ itemsSeq = 1
  /\ lastCall = NoCall
  /\ calls = [p \in Procs |-> Idle]
  /\ ui = Unmounted

\* The product the handler returns: the updated row, price as a JS number.
ReturnedProduct(row) == [row EXCEPT !.price = ParseFloat(row.price)]

\* An updateStock call for an id of the catalog or the next, unused, one.
\* Stock levels between the few units and the largest ones are left out.
StockCallAfter(previous) ==
  \E product_id \in 1..(MaxProducts + 1),
     quantity_change \in (0 - MaxQty)..MaxQty :
    /\ updateStock(product_id, quantity_change)
    /\ \A id \in DOMAIN productsTable' :
         ~(/\ productsTable'[id].stock_quantity > MaxStock
           /\ productsTable'[id].stock_quantity < IntegerMax - 1)
    /\ lastCall' =
         Reply("updateStock",
               [product_id |-> product_id, quantity_change |-> quantity_change],
               UpdateStockError(productsTable, product_id, quantity_change),
               IF UpdateStockError(productsTable, product_id, quantity_change) = "none"
               THEN Some(ReturnedProduct(productsTable'[product_id]))
               ELSE None,
               store, previous)
    /\ UNCHANGED <<calls, now, ui>>

StockCall == StockCallAfter(Unobserved)

LowStockCall ==
  \E result \in LowStockResults(productsTable) :
    /\ lastCall' = Reply("getLowStockItems", None, "none", result, store,
                         Unobserved)
    /\ UNCHANGED <<store, productsSeq, transactionsSeq, itemsSeq, calls, now, ui>>

\* A millisecond passes.
Tick ==
  /\ now.ms < MaxClock
  /\ now' = [now EXCEPT !.ms = @ + 1]
  /\ UNCHANGED <<store, productsSeq, transactionsSeq, itemsSeq, lastCall, calls, ui>>

NextStock ==
  \/ StockCall
  \/ LowStockCall
  \/ Tick

SpecStock == InitStock /\ [][NextStock]_vars

\* updateStock calls alone, each observed together with the call before it.
StockCallInTurn == StockCallAfter(Previous(lastCall))

NextInverse == StockCallInTurn

SpecInverse == InitStock /\ [][NextInverse]_vars

\* ------------------------------------------------- the report route, observed
\* publicProcedure.input(salesReportInputSchema).query(getSalesReport): the
\* whole handler, which reads the two ledger tables and writes nothing.
getSalesReport(input) ==
  /\ lastCall' =
       Reply("getSalesReport", input, "none",
             SalesReport(salesTransactionsTable, salesTransactionItemsTable, input),
             store, Unobserved)
  /\ UNCHANGED <<store, productsSeq, transactionsSeq, itemsSeq, calls, now, ui>>

\* The start dates of the requests below, as salesReportInputSchema's
\* YYYY-MM-DD text: the first days, a middle day and the last days of every
\* month of a common year and of the leap year after it.
ReportYears == {2023, 2024}

DaysOfMonth == {1, 2, 15, 28, 29, 30, 31}

CalendarDates ==
  {date \in [year : ReportYears, month : 1..12, day : DaysOfMonth] :
     date.day <= DaysInMonth(date.year, date.month - 1)}

\* The requests that leave end_date out.
DatesInputs ==
  {[period |-> period, start_date |-> start_date, end_date |-> None] :
     period \in Periods, start_date \in CalendarDates}

\* Reports over the empty ledger with end_date left out.
DatesCall == \E input \in DatesInputs : getSalesReport(input)

NextDates == DatesCall

SpecDates == Init /\ [][NextDates]_vars

\* The transaction dates of the ledgers below: around the two days the
\* requests name, on the first and on the last millisecond of a day.
ReportDays ==
  {[year |-> 2024, month |-> 1, day |-> 31], [year |-> 2024, month |-> 2, day |-> 1]}

ReportTimes ==
  {DateTime(2024, 0, 30, EndOfDay), DateTime(2024, 0, 31, 0),
   DateTime(2024, 0, 31, EndOfDay), DateTime(2024, 1, 1, 0),
   DateTime(2024, 1, 2, 0)}

\* A transaction of a ledger: its date and the quantities of its line items,
\* all of one product at 0.02; no line item for a header inserted alone.
LedgerSales ==
  [date : ReportTimes,
   quantities : UNION {[1..n -> 1..MaxQty] : n \in 0..MaxLines}]

LinePrice == ToNumericScale2(15)

LedgerHeaders(sales) ==
  [t \in DOMAIN sales |->
     [transaction_date |-> sales[t].date,
      total_amount |->
        IF sales[t].quantities = <<>> THEN LinePrice
        ELSE SumSeq([i \in DOMAIN sales[t].quantities |->
                       LinePrice * sales[t].quantities[i]])]]

\* The line items of the transactions, under serial ids in insertion order.
RECURSIVE LedgerItems(_, _, _)
LedgerItems(sales, t, table) ==
  IF t > Len(sales) THEN table
  ELSE LedgerItems(sales, t + 1,
         InsertItems(table, Cardinality(DOMAIN table) + 1, t,
                     [i \in DOMAIN sales[t].quantities |->
                        [product_id   |-> 1,
                         product_name |-> "A",
                         quantity     |-> sales[t].quantities[i],
                         unit_price   |-> ParseFloat(LinePrice),
                         subtotal     |-> ParseFloat(LinePrice) * sales[t].quantities[i]]]))

InitReport ==
  /\ now = DateTime(2024, 1, 2, 0)
  /\ productsTable = EmptyTable
  /\ \E sales \in UNION {[1..n -> LedgerSales] : n \in 0..MaxLedgerTx} :
       /\ salesTransactionsTable = LedgerHeaders(sales)
       /\ salesTransactionItemsTable = LedgerItems(sales, 1, EmptyTable)
  /\ productsSeq = 1
  /\ transactionsSeq = Cardinality(DOMAIN salesTransactionsTable) + 1
  /\ itemsSeq = Cardinality(DOMAIN salesTransactionItemsTable) + 1
  /\ lastCall = NoCall
  /\ calls = [p \in Procs |-> Idle]
  /\ ui = Unmounted

ReportInputs ==
  [period : Periods, start_date : ReportDays, end_date : Opt(ReportDays)]

ReportCall == \E input \in ReportInputs : getSalesReport(input)

NextReport == ReportCall

SpecReport == InitReport /\ [][NextReport]_vars

\* ------------------------------------------- the sales history, observed
\* publicProcedure.input(z.object({ id })).mutation(deleteProduct): the whole
\* handler, with what it answers.
DeleteCall ==
  \E id \in ProductIds :
    /\ deleteProduct(id)
    /\ lastCall' =
         Reply("deleteProduct", [id |-> id],
               DeleteProductError(productsTable, salesTransactionItemsTable, id),
               [success |-> TRUE], store, Unobserved)
    /\ UNCHANGED <<calls, now, ui>>

\* publicProcedure.query(getProductsWithSales): the whole handler, which
\* writes nothing.
ProductsWithSalesCall ==
  \E result \in ProductsWithSalesResults(productsTable, salesTransactionItemsTable) :
    /\ lastCall' = Reply("getProductsWithSales", None, "none", result, store,
                         Unobserved)
    /\ UNCHANGED <<store, productsSeq, transactionsSeq, itemsSeq, calls, now, ui>>

\* publicProcedure.query(getSalesTransactions): the whole handler, which
\* writes nothing.
SalesTransactionsCall ==
  \E result \in SalesTransactionsResults(salesTransactionsTable,
                                         salesTransactionItemsTable) :
    /\ lastCall' = Reply("getSalesTransactions", None, "none", result, store,
                         Unobserved)
    /\ UNCHANGED <<store, productsSeq, transactionsSeq, itemsSeq, calls, now, ui>>

\* Sales from a catalog, deletions of its products and the two listings, one
\* call at a time.
NextHistory ==
  \/ SaleCall
  \/ DeleteCall
  \/ ProductsWithSalesCall
  \/ SalesTransactionsCall

SpecHistory == InitConc /\ [][NextHistory]_vars

\* --------------------------------------------- sales after a change of price
\* Prices an updateProduct request may carry, in mills: 0.004 and 0.015, both
\* accepted by updateProductInputSchema's price: z.number().positive().
Repricings == {4, 15}

\* publicProcedure.input(updateProductInputSchema).mutation(updateProduct) of
\* a request that carries a price only.
PriceCall ==
  \E id \in ProductIds, price \in Repricings :
    /\ updateProduct([id |-> id, name |-> None, price |-> Some(price),
                      stock_quantity |-> None, min_stock_threshold |-> None])
    /\ lastCall' = Call("updateProduct", <<>>, Returned, store)
    /\ UNCHANGED <<calls, now, ui>>

NextReprice ==
  \/ PriceCall
  \/ SaleCall

SpecReprice == InitConc /\ [][NextReprice]_vars

\* --------------------------------------- stock adjustments beside a ledger
\* Products as the tests insert them, the first with a description, the
\* second without, created and last updated a day before the calls.
TestProducts ==
  {[id \in ProductIds |->
      [NewProductRow([name |-> IF id = 1 THEN "A" ELSE "B",
                      price |-> IF id = 1 THEN 15 ELSE 30,
                      stock_quantity |-> stock[id],
                      min_stock_threshold |-> None])
         EXCEPT !.updated_at = StartOfClock]
      @@ [description |-> IF id = 1 THEN Some("d") ELSE None,
          created_at  |-> StartOfClock]] :
     stock \in [ProductIds -> 0..MaxStock]}

InitFrame ==
  /\ now = DateTime(2024, 1, 1, 0)
  /\ productsTable \in TestProducts
  /\ salesTransactionsTable = EmptyTable
  /\ salesTransactionItemsTable = EmptyTable
  /\ productsSeq = MaxProducts + 1
  /\ transactionsSeq = 1
  /\ itemsSeq = 1
  /\ lastCall = NoCall
  /\ calls = [p \in Procs |-> Idle]
  /\ ui = Unmounted

\* reason: z.string().optional()
Reasons == Opt({"recount"})

\* publicProcedure.input(...).mutation(updateStock) of a request with or
\* without a reason; the handler never reads input.reason.
ReasonedStockCall ==
  \E product_id \in ProductIds, quantity_change \in (0 - MaxQty)..MaxQty,
     reason \in Reasons :
    /\ updateStock(product_id, quantity_change)
    /\ \A id \in DOMAIN productsTable' :
         productsTable'[id].stock_quantity <= MaxStock
    /\ lastCall' =
         Reply("updateStock",
               [product_id |-> product_id, quantity_change |-> quantity_change,
                reason |-> reason],
               UpdateStockError(productsTable, product_id, quantity_change),
               IF UpdateStockError(productsTable, product_id, quantity_change) = "none"
               THEN Some(ReturnedProduct(productsTable'[product_id]))
               ELSE None,
               store, Unobserved)
    /\ UNCHANGED <<calls, now, ui>>

NextFrame ==
  \/ SaleCall
  \/ ReasonedStockCall

SpecFrame == InitFrame /\ [][NextFrame]_vars

\* ------------------------------------------ sales and adjustments, audited
\* What an auditor keeps of a run: the last call and whether it threw, the
\* catalog at the start, and per product the sum of the quantity_change of
\* the updateStock calls that returned.
Audit(op, error, initial, applied) ==
  [op |-> op, error |-> error, initial |-> initial, applied |-> applied]

InitAudit ==
  /\ now = StartOfClock
  /\ productsTable \in Catalogs
  /\ salesTransactionsTable = EmptyTable
  /\ salesTransactionItemsTable = EmptyTable
  /\ productsSeq = MaxProducts + 1
  /\ transactionsSeq = 1
  /\ itemsSeq = 1
  /\ lastCall = Audit("none", "none", productsTable, [id \in ProductIds |-> 0])
  /\ calls = [p \in Procs |-> Idle]
  /\ ui = Unmounted

AuditedSaleCall ==
  \E items \in SaleInputs :
    /\ createSalesTransaction(items)
    /\ lastCall' = Audit("createSalesTransaction",
                         SaleResponse(productsTable, items).error,
                         lastCall.initial, lastCall.applied)
    /\ UNCHANGED <<calls, now, ui>>

AuditedStockCall ==
  \E product_id \in ProductIds, quantity_change \in (0 - MaxQty)..MaxQty :
    /\ updateStock(product_id, quantity_change)
    /\ \A id \in DOMAIN productsTable' :
         productsTable'[id].stock_quantity <= MaxStock
    /\ lastCall' =
         Audit("updateStock",
               UpdateStockError(productsTable, product_id, quantity_change),
               lastCall.initial,
               IF UpdateStockError(productsTable, product_id, quantity_change) = "none"
               THEN [lastCall.applied EXCEPT ![product_id] = @ + quantity_change]
               ELSE lastCall.applied)
    /\ UNCHANGED <<calls, now, ui>>

NextAudit ==
  \/ AuditedSaleCall
  \/ AuditedStockCall

SpecAudit == InitAudit /\ [][NextAudit]_vars

\* ------------------------------------------------------ the page of a browser
\* The store and the page as they are when a handler of the page starts.
Shown == <<productsTable, salesTransactionsTable, salesTransactionItemsTable, ui>>

\* The catalogs behind the page: one product, of any admissible stock.
ClientCatalogs ==
  {[id \in {1} |->
      NewProductRow([name |-> "A", price |-> 15, stock_quantity |-> stock,
                     min_stock_threshold |-> None])] :
     stock \in 0..MaxStock}

\* useEffect(() => { loadData(); }): the page is mounted and its first load is
\* under way (setIsLoading(true)).
InitClient ==
  /\ now = StartOfClock
  /\ productsTable \in ClientCatalogs
  /\ salesTransactionsTable = EmptyTable
  /\ salesTransactionItemsTable = EmptyTable
  /\ productsSeq = 2
  /\ transactionsSeq = 1
  /\ itemsSeq = 1
  /\ lastCall = NoCall
  /\ calls = [p \in Procs |-> Idle]
  /\ ui = [Unmounted EXCEPT !.isLoading = TRUE]

\* loadData, from the answers of the server on: setProducts, setTransactions,
\* setIsLoading(false).
LoadData ==
  /\ ui.isLoading
  /\ \E transactionsData \in SalesTransactionsResults(salesTransactionsTable,
                                                   salesTransactionItemsTable) :
       ui' = [ui EXCEPT
                !.products = [id \in DOMAIN productsTable |->
                                ReturnedProduct(productsTable[id])],
                !.transactions = transactionsData,
                !.isLoading = FALSE]
  /\ lastCall' = Reply("loadData", None, "none", None, None, Unobserved)
  /\ UNCHANGED <<store, productsSeq, transactionsSeq, itemsSeq, calls, now>>

\* <Dialog open={isCreateDialogOpen} onOpenChange={setIsCreateDialogOpen}>
OpenCreateDialog ==
  /\ ~ui.isCreateDialogOpen
  /\ ui' = [ui EXCEPT !.isCreateDialogOpen = TRUE]
  /\ lastCall' = Reply("openCreateDialog", None, "none", None, None, Unobserved)
  /\ UNCHANGED <<store, productsSeq, transactionsSeq, itemsSeq, calls, now>>

\* The cart with the quantity of one of its items replaced.
WithQuantity(cart, productId, newQuantity) ==
  [i \in DOMAIN cart |->
     IF cart[i].product_id = productId
     THEN [cart[i] EXCEPT !.quantity = newQuantity]
     ELSE cart[i]]

\* addToCart: the quantity is checked against the stock the page shows; a
\* product already in the cart has its quantity raised.
AddToCart ==
  \E productId \in DOMAIN ui.products, quantity \in 1..MaxQty :
    LET product  == ui.products[productId]
        existing == {i \in DOMAIN ui.cart : ui.cart[i].product_id = productId}
        wanted   == IF existing = {} THEN quantity
                    ELSE ui.cart[CHOOSE i \in existing : TRUE].quantity + quantity
    IN  /\ ui.isCreateDialogOpen
        /\ ui' = IF wanted > product.stock_quantity
                 THEN [ui EXCEPT !.alert = Some("Stok tidak mencukupi")]
                 ELSE IF existing = {}
                 THEN [ui EXCEPT !.cart = Append(@, [product_id |-> productId,
                                                     quantity |-> quantity])]
                 ELSE [ui EXCEPT !.cart = WithQuantity(@, productId, wanted)]
        /\ lastCall' = Reply("addToCart", None, "none", None, None, Unobserved)
        /\ UNCHANGED <<store, productsSeq, transactionsSeq, itemsSeq, calls, now>>

\* The stub transaction that handleTransactionCreate shows when the request
\* has failed: id Date.now(), priced from the products the page shows.
StubTransaction(products, items) ==
  [id               |-> "Date.now()",
   transaction_date |-> now,
   total_amount     |->
     SumSeq([i \in DOMAIN items |->
               IF items[i].product_id \in DOMAIN products
               THEN products[items[i].product_id].price * items[i].quantity
               ELSE 0]),
   items            |-> {[product_id |-> items[i].product_id,
                          quantity   |-> items[i].quantity] : i \in DOMAIN items}]

\* Math.max(0, newStock)
MaxOfZero(n) == IF n > 0 THEN n ELSE 0

\* The stocks the page shows after the stub sale: every product of the cart
\* less the quantity of its item.
StubStocks(products, items) ==
  [id \in DOMAIN products |->
     IF \E i \in DOMAIN items : items[i].product_id = id
     THEN [products[id] EXCEPT
             !.stock_quantity =
                MaxOfZero(@ - items[CHOOSE i \in DOMAIN items :
                                      items[i].product_id = id].quantity),
             !.updated_at = now]
     ELSE products[id]]

\* handleSubmit of the sale dialog with onTransactionCreate =
\* handleTransactionCreate: the request is served; when it has failed, the
\* catch of handleTransactionCreate shows a stub transaction and stub stocks
\* and does not rethrow, so that handleSubmit resets the form in both cases.
HandleSubmit ==
  /\ ui.isCreateDialogOpen
  /\ ui.cart # <<>>
  /\ Len(ui.transactions) < MaxTx
  /\ createSalesTransaction(ui.cart)
  /\ ui' = IF SaleResponse(productsTable, ui.cart) = Returned
           THEN [ui EXCEPT !.isLoading = TRUE,
                           !.cart = <<>>,
                           !.isCreateDialogOpen = FALSE]
           ELSE [ui EXCEPT !.transactions =
                              <<StubTransaction(ui.products, ui.cart)>> \o @,
                           !.products = StubStocks(@, ui.cart),
                           !.cart = <<>>,
                           !.isCreateDialogOpen = FALSE]
  /\ lastCall' = Reply("handleSubmit", ui.cart,
                       SaleResponse(productsTable, ui.cart).error, None,
                       Shown, Unobserved)
  /\ UNCHANGED <<calls, now>>

\* <Dialog open={isUpdateDialogOpen} onOpenChange={setIsUpdateDialogOpen}>
OpenUpdateDialog ==
  /\ ~ui.isUpdateDialogOpen
  /\ ui' = [ui EXCEPT !.isUpdateDialogOpen = TRUE]
  /\ lastCall' = Reply("openUpdateDialog", None, "none", None, None, Unobserved)
  /\ UNCHANGED <<store, productsSeq, transactionsSeq, itemsSeq, calls, now>>

\* handleStockUpdate of the stock dialog with onStockUpdate = loadData, for a
\* product chosen from those shown, a quantity of 1 or more and a reason;
\* the fields of the form are inputs of the step.
HandleStockUpdate ==
  \E selectedProductId \in DOMAIN ui.products, quantityChange \in 1..MaxQty,
     updateType \in {"add", "subtract"} :
    LET finalQuantityChange ==
          IF updateType = "subtract" THEN 0 - quantityChange ELSE quantityChange
        error == UpdateStockError(productsTable, selectedProductId, finalQuantityChange)
    IN  /\ ui.isUpdateDialogOpen
        /\ updateStock(selectedProductId, finalQuantityChange)
        /\ \A id \in DOMAIN productsTable' :
             productsTable'[id].stock_quantity <= MaxStock
        /\ ui' = IF error = "none"
                 THEN [ui EXCEPT !.isUpdateDialogOpen = FALSE, !.isLoading = TRUE]
                 ELSE [ui EXCEPT !.alert = Some("Stok berhasil diperbarui (demo mode)"),
                                 !.isUpdateDialogOpen = FALSE,
                                 !.isLoading = TRUE]
        /\ lastCall' = Reply("handleStockUpdate",
                             [product_id |-> selectedProductId,
                              quantity_change |-> finalQuantityChange],
                             error, None, Shown, Unobserved)
        /\ UNCHANGED <<calls, now>>

NextClient ==
  \/ LoadData
  \/ OpenCreateDialog
  \/ AddToCart
  \/ HandleSubmit
  \/ OpenUpdateDialog
  \/ HandleStockUpdate

SpecClient == InitClient /\ [][NextClient]_vars

\* ------------------------------------------------------------------ claims
\* The total quantity a request asks of product id, over all its items.
RequestedTotal(items, id) ==
  SumSeq([i \in DOMAIN items |->
            IF items[i].product_id = id THEN items[i].quantity ELSE 0])

\* The requested ids that have no row in the table.
AbsentIds(table, items) == Range(RequestedIds(items)) \ DOMAIN table

DistinctIds(items) == Cardinality(Range(RequestedIds(items))) = Len(items)

IsSale == lastCall.op = "createSalesTransaction"
SaleReturned == IsSale /\ lastCall.error = "none"
ProductsBefore == lastCall.before[1]
ItemsBefore == lastCall.before[3]
StoreUnchanged == store = lastCall.before

\* The line items the last call inserted.
NewItems == (DOMAIN salesTransactionItemsTable) \ (DOMAIN ItemsBefore)

\* C1: after any sequence of createProduct, updateProduct, updateStock,
\* createSalesTransaction and deleteProduct calls served one at a time, every
\* product row has stock_quantity >= 0.
C1_StockNonNegative ==
  \A id \in DOMAIN productsTable : productsTable[id].stock_quantity >= 0

\* A product sold down to 0 by a committed sale.
C1_Witness ==
  \E id \in DOMAIN productsTable :
    /\ productsTable[id].stock_quantity = 0
    /\ SalesItemsOf(salesTransactionItemsTable, id) # {}

\* C2: a createSalesTransaction call that asks, over all its items, for more of
\* some product than its stock, or that names an id with no product row, throws
\* and leaves the three tables as they were.
C2_FailedSaleRollsBack ==
  (IsSale /\ (\/ AbsentIds(ProductsBefore, lastCall.items) # {}
              \/ \E id \in DOMAIN ProductsBefore :
                   RequestedTotal(lastCall.items, id) > ProductsBefore[id].stock_quantity))
    => (lastCall.error # "none" /\ StoreUnchanged)

\* A request whose items each fit the stock but together exceed it, refused.
C2_Witness ==
  /\ IsSale
  /\ lastCall.error # "none"
  /\ AbsentIds(ProductsBefore, lastCall.items) = {}
  /\ \A i \in DOMAIN lastCall.items :
       lastCall.items[i].quantity <= ProductsBefore[lastCall.items[i].product_id].stock_quantity
  /\ \E id \in DOMAIN ProductsBefore :
       RequestedTotal(lastCall.items, id) > ProductsBefore[id].stock_quantity

C5_StockDebitedExactly ==
  SaleReturned =>
    /\ DOMAIN productsTable = DOMAIN ProductsBefore
    /\ \A id \in DOMAIN ProductsBefore :
         productsTable[id].stock_quantity =
           ProductsBefore[id].stock_quantity - RequestedTotal(lastCall.items, id)

\* A sale of two units of one product from a catalog of two.
C5_Witness ==
  /\ SaleReturned
  /\ Len(lastCall.items) = 1
  /\ lastCall.items[1].quantity = 2
  /\ Cardinality(DOMAIN productsTable) = 2

\* C6: every line item a createSalesTransaction call inserts carries the name
\* and the price of the product row it references, as the catalog holds them
\* when the call commits; a request item has product_id and quantity only.
C6_SnapshotFromCatalog ==
  SaleReturned =>
    \A k \in NewItems :
      LET row == salesTransactionItemsTable[k]
      IN  /\ row.product_id \in DOMAIN ProductsBefore
          /\ row.unit_price = ProductsBefore[row.product_id].price
          /\ row.product_name = ProductsBefore[row.product_id].name
          /\ row.unit_price = productsTable[row.product_id].price
          /\ row.product_name = productsTable[row.product_id].name

\* A sale of two products that differ in name and in price.
C6_Witness ==
  /\ SaleReturned
  /\ \E k1, k2 \in NewItems :
       /\ salesTransactionItemsTable[k1].product_name # salesTransactionItemsTable[k2].product_name
       /\ salesTransactionItemsTable[k1].unit_price # salesTransactionItemsTable[k2].unit_price

\* C7: no call changes or removes a transaction header or a line item that is
\* in the tables: each row present before a step is present, equal, after it.
C7_LedgerImmutable ==
  [][/\ \A t \in DOMAIN salesTransactionsTable :
          /\ t \in DOMAIN salesTransactionsTable'
          /\ salesTransactionsTable'[t] = salesTransactionsTable[t]
     /\ \A k \in DOMAIN salesTransactionItemsTable :
          /\ k \in DOMAIN salesTransactionItemsTable'
          /\ salesTransactionItemsTable'[k] = salesTransactionItemsTable[k]]_vars

\* Two transactions in the ledger, and a line item whose product has since been
\* renamed and re-priced.
C7_Witness ==
  /\ Cardinality(DOMAIN salesTransactionsTable) = 2
  /\ \E k \in DOMAIN salesTransactionItemsTable :
       LET row == salesTransactionItemsTable[k]
       IN  /\ row.product_id \in DOMAIN productsTable
           /\ row.product_name # productsTable[row.product_id].name
           /\ row.unit_price # productsTable[row.product_id].price

\* C8: a createSalesTransaction call that names ids with no product row throws
\* "Products not found" listing exactly those ids, and writes nothing.
C8_AllMissingIdsListed ==
  (IsSale /\ AbsentIds(ProductsBefore, lastCall.items) # {})
    => /\ lastCall.error = "ProductsNotFound"
       /\ Range(lastCall.missing) = AbsentIds(ProductsBefore, lastCall.items)
       /\ StoreUnchanged

\* A request that names two ids with no product row.
C8_Witness ==
  /\ IsSale
  /\ Cardinality(AbsentIds(ProductsBefore, lastCall.items)) = 2
  /\ lastCall.error = "ProductsNotFound"

\* C9: a createSalesTransaction call whose every requested id has a product
\* row, the same id named twice included, does not throw "Products not found".
C9_NoNotFoundWhenAllExist ==
  (IsSale /\ AbsentIds(ProductsBefore, lastCall.items) = {})
    => lastCall.error # "ProductsNotFound"

\* C10: for a request that names distinct existing products, the call throws
\* "Insufficient stock" exactly when some item asks for more than the stock of
\* its product, and then nothing is written; otherwise it returns, and a product
\* asked for its whole stock is left with 0.
C10_InsufficientIffOverStock ==
  (IsSale /\ AbsentIds(ProductsBefore, lastCall.items) = {} /\ DistinctIds(lastCall.items))
    => LET over == \E i \in DOMAIN lastCall.items :
                     lastCall.items[i].quantity >
                       ProductsBefore[lastCall.items[i].product_id].stock_quantity
       IN  /\ over => (lastCall.error = "InsufficientStock" /\ StoreUnchanged)
           /\ ~over =>
                /\ lastCall.error = "none"
                /\ \A i \in DOMAIN lastCall.items :
                     lastCall.items[i].quantity =
                       ProductsBefore[lastCall.items[i].product_id].stock_quantity
                     => productsTable[lastCall.items[i].product_id].stock_quantity = 0

\* A sale of the whole stock of a product, which returns and leaves it at 0.
C10_Witness ==
  /\ SaleReturned
  /\ \E i \in DOMAIN lastCall.items :
       /\ lastCall.items[i].quantity =
            ProductsBefore[lastCall.items[i].product_id].stock_quantity
       /\ productsTable[lastCall.items[i].product_id].stock_quantity = 0

\* The quantity of product id that the committed call of connection p sold.
SoldBy(p, id) ==
  IF calls[p].pc = "done" THEN RequestedTotal(calls[p].items, id) ELSE 0

\* C3: whatever the interleaving of two createSalesTransaction calls, once
\* every call has ended the stock of each product is its stock before the
\* calls minus the quantities the committed calls sold of it, so that no more
\* is sold than there was.
C3_NoSaleOnStaleStock ==
  (\A p \in Procs : calls[p].pc \in {"done", "failed"})
    => \A id \in DOMAIN productsTable :
         LET sold == SumOver([p \in Procs |-> SoldBy(p, id)], Procs)
         IN  /\ productsTable[id].stock_quantity =
                  ProductsBefore[id].stock_quantity - sold
             /\ sold <= ProductsBefore[id].stock_quantity

\* C11: a createSalesTransaction request with no items is answered with the
\* schema's "At least one item is required" error without the handler running:
\* no row is read, none is written.
C11_EmptyItemListRejected ==
  /\ (IsSale /\ lastCall.items = <<>>)
       => (lastCall.error = "EmptyItemList" /\ StoreUnchanged)
  /\ \A p \in Procs :
       (calls[p].pc # "idle" /\ calls[p].items = <<>>)
         => /\ calls[p].pc = "rejected"
            /\ calls[p].products = EmptyTable

\* A request with no items answered after a sale has filled the ledger.
C11_Witness ==
  /\ IsSale
  /\ lastCall.items = <<>>
  /\ lastCall.error = "EmptyItemList"
  /\ salesTransactionsTable # EmptyTable

IsStockCall == lastCall.op = "updateStock"
StockCallId == lastCall.request.product_id
StockCallChange == lastCall.request.quantity_change

\* stock + change >= 0 and stock + change <= IntegerMax, written without
\* forming a sum beyond IntegerMax.
SumNonNegative(stock, change) == change >= 0 - stock
SumFits(stock, change) == change <= IntegerMax - stock

\* C12, as claimed: an updateStock call on an existing product returns exactly
\* when stock + quantity_change >= 0, and then the stock is that sum; otherwise
\* it throws "Insufficient stock" and the stock is as before; for an absent id
\* it throws "not found" and writes nothing.
C12_SucceedsIffNonNegative ==
  IsStockCall =>
    IF StockCallId \notin DOMAIN ProductsBefore
    THEN lastCall.error = "ProductNotFound" /\ StoreUnchanged
    ELSE IF SumNonNegative(ProductsBefore[StockCallId].stock_quantity, StockCallChange)
    THEN /\ lastCall.error = "none"
         /\ productsTable[StockCallId].stock_quantity
              - ProductsBefore[StockCallId].stock_quantity = StockCallChange
    ELSE /\ lastCall.error = "InsufficientStock"
         /\ productsTable[StockCallId].stock_quantity
              = ProductsBefore[StockCallId].stock_quantity

\* C12, amended: the call returns exactly when 0 <= stock + quantity_change
\* <= 2147483647, and then the stock is that sum and no other product row has
\* changed; below 0 it throws "Insufficient stock", above 2147483647 the UPDATE
\* fails with the database's range error, and either way the tables are as
\* before; for an absent id it throws "not found" and writes nothing.
C12_SucceedsIffInRange ==
  IsStockCall =>
    IF StockCallId \notin DOMAIN ProductsBefore
    THEN lastCall.error = "ProductNotFound" /\ StoreUnchanged
    ELSE LET stock == ProductsBefore[StockCallId].stock_quantity
         IN  IF ~SumNonNegative(stock, StockCallChange)
             THEN lastCall.error = "InsufficientStock" /\ StoreUnchanged
             ELSE IF ~SumFits(stock, StockCallChange)
             THEN lastCall.error = "IntegerOutOfRange" /\ StoreUnchanged
             ELSE /\ lastCall.error = "none"
                  /\ productsTable[StockCallId].stock_quantity = stock + StockCallChange
                  /\ DOMAIN productsTable = DOMAIN ProductsBefore
                  /\ \A id \in (DOMAIN ProductsBefore) \ {StockCallId} :
                       productsTable[id] = ProductsBefore[id]

\* A stock taken down to exactly 0 by a negative change.
C12_Witness ==
  /\ IsStockCall
  /\ lastCall.error = "none"
  /\ StockCallChange < 0
  /\ ProductsBefore[StockCallId].stock_quantity = 0 - StockCallChange
  /\ productsTable[StockCallId].stock_quantity = 0

\* The call before the last was updateStock(id, +Q), Q >= 0, on an existing
\* product and the last call is updateStock(id, -Q).
InverseCalls ==
  /\ IsStockCall
  /\ lastCall.previous.op = "updateStock"
  /\ lastCall.previous.request.product_id = StockCallId
  /\ StockCallId \in DOMAIN lastCall.previous.before[1]
  /\ lastCall.previous.request.quantity_change >= 0
  /\ StockCallChange = 0 - lastCall.previous.request.quantity_change

StockBeforeBoth == lastCall.previous.before[1][StockCallId].stock_quantity

\* C13, as claimed: for every existing product and every Q >= 0,
\* updateStock(id, +Q) and then updateStock(id, -Q), with no write in between,
\* leave the stock of the product as it was before the two calls.
C13_InverseRestores ==
  InverseCalls => productsTable[StockCallId].stock_quantity = StockBeforeBoth

\* C13, amended: the same, for the Q >= 0 for which updateStock(id, +Q)
\* returns, that is, for which stock + Q is at most 2147483647.
C13_InverseRestoresAfterIncrease ==
  (InverseCalls /\ lastCall.previous.error = "none")
    => /\ lastCall.error = "none"
       /\ productsTable[StockCallId].stock_quantity = StockBeforeBoth

\* A stock of 0 raised by 2 and taken back to 0.
C13_Witness ==
  /\ InverseCalls
  /\ lastCall.previous.error = "none"
  /\ lastCall.previous.request.quantity_change = 2
  /\ StockBeforeBoth = 0
  /\ productsTable[StockCallId].stock_quantity = 0

IsLowStockCall == lastCall.op = "getLowStockItems"

IsReport == lastCall.op = "getSalesReport"
Report == lastCall.result
Headers == lastCall.before[2]
Lines == lastCall.before[3]

\* The range of the last report: from 00:00:00.000 of the start_date of the
\* request to 23:59:59.999 of the end date the call resolved.
RangeStart == DateTime(Report.start_date.year, Report.start_date.month - 1,
                       Report.start_date.day, 0)
RangeEnd == DateTime(Report.end_date.year, Report.end_date.month - 1,
                     Report.end_date.day, EndOfDay)

LinesOf(t) == {k \in DOMAIN Lines : Lines[k].transaction_id = t}

\* The transactions dated in the range that have at least one line item.
Qualifying ==
  {t \in DOMAIN Headers :
     /\ ~Earlier(Headers[t].transaction_date, RangeStart)
     /\ ~Earlier(RangeEnd, Headers[t].transaction_date)
     /\ LinesOf(t) # {}}

\* Those of them that fall in the bucket of a row of the series.
QualifyingIn(row) ==
  {t \in Qualifying :
     ToISODate(PeriodDate(lastCall.request.period, Headers[t].transaction_date))
       = row.date}

Revenue(transactions) ==
  ParseFloat(SumOver([t \in transactions |-> Headers[t].total_amount], transactions))

ItemsSold(transactions) ==
  SumOver([t \in transactions |->
             SumOver([k \in LinesOf(t) |-> Lines[k].quantity], LinesOf(t))],
          transactions)

\* C16: the summary's total_revenue is the sum of total_amount over the
\* transactions in the range that have a line item, each counted once,
\* whatever the number of its line items and whether or not two of them have
\* the same total_amount.
C16_RevenueOncePerTransaction ==
  IsReport => Report.summary.total_revenue = Revenue(Qualifying)

\* C17: the summary's total_transactions is the number of transactions dated
\* in [start_date 00:00:00.000, end date 23:59:59.999] that have a line item,
\* and its total_items_sold is the sum of the quantities of their line items;
\* the series has one row for each bucket that holds such a transaction, with
\* these two numbers taken over the transactions of the bucket.  A header with
\* no line item or dated outside the range adds nothing to either.
C17_CountsOfQualifyingTransactions ==
  IsReport =>
    /\ Report.summary.total_transactions = Cardinality(Qualifying)
    /\ Report.summary.total_items_sold = ItemsSold(Qualifying)
    /\ \A t \in Qualifying : \E i \in DOMAIN Report.data : t \in QualifyingIn(Report.data[i])
    /\ \A i \in DOMAIN Report.data :
         /\ QualifyingIn(Report.data[i]) # {}
         /\ Report.data[i].total_transactions = Cardinality(QualifyingIn(Report.data[i]))
         /\ Report.data[i].total_items_sold = ItemsSold(QualifyingIn(Report.data[i]))

\* A report over a ledger of two transactions dated in the range, one on its
\* last millisecond with two line items, the other without line items.
C17_Witness ==
  /\ IsReport
  /\ Report.summary.total_transactions = 1
  /\ Report.summary.total_items_sold = 3
  /\ \E t, u \in DOMAIN Headers :
       /\ Headers[t].transaction_date = RangeEnd
       /\ Cardinality(LinesOf(t)) = 2
       /\ LinesOf(u) = {}
       /\ ~Earlier(Headers[u].transaction_date, RangeStart)
       /\ ~Earlier(RangeEnd, Headers[u].transaction_date)

\* C18: each row of the series has as total_revenue the sum of total_amount
\* over the transactions of its bucket, each counted once however many line
\* items it has; the rows come in ascending order of date, and there is a row
\* only for a bucket that holds a transaction.
C18_BucketRevenueOncePerTransaction ==
  IsReport =>
    /\ \A i \in DOMAIN Report.data :
         /\ QualifyingIn(Report.data[i]) # {}
         /\ Report.data[i].total_revenue = Revenue(QualifyingIn(Report.data[i]))
    /\ \A i, j \in DOMAIN Report.data :
         i < j => Earlier(ParseDate(Report.data[i].date), ParseDate(Report.data[j].date))

\* The last day of the month, and the day 6 days after, of a YYYY-MM-DD date.
LastDayOfMonth(text) ==
  [text EXCEPT !.day = DaysInMonth(text.year, text.month - 1)]
SixDaysAfter(text, other) ==
  DayNumber(ParseDate(other)) = DayNumber(ParseDate(text)) + 6

EndDateOmitted == IsReport /\ lastCall.request.end_date = None

\* C19: with end_date left out, the report's range ends on start_date itself
\* for daily, 6 days after start_date for weekly, and on the last day of the
\* month of start_date for monthly, whatever the day of the month.
C19_MonthlyEndsInStartMonth ==
  EndDateOmitted =>
    /\ lastCall.request.period = "daily"
         => Report.end_date = lastCall.request.start_date
    /\ lastCall.request.period = "weekly"
         => SixDaysAfter(lastCall.request.start_date, Report.end_date)
    /\ lastCall.request.period = "monthly"
         => Report.end_date = LastDayOfMonth(lastCall.request.start_date)

\* C20: with end_date left out and period yearly, the report's range ends on
\* December 31 of the year of start_date, whatever the month.
C20_YearlyEndsInStartYear ==
  (EndDateOmitted /\ lastCall.request.period = "yearly")
    => Report.end_date =
         [year |-> lastCall.request.start_date.year, month |-> 12, day |-> 31]

IsDeleteCall == lastCall.op = "deleteProduct"

\* C21: deleteProduct of an id with no product row fails with ProductNotFound
\* and changes nothing; of an existing product it fails with
\* ProductHasSalesHistory, the row staying in place, exactly when a line item
\* references the id, and otherwise removes the product row and nothing else.
C21_DeleteRejectedIffSold ==
  IsDeleteCall =>
    LET id       == lastCall.request.id
        products == lastCall.before[1]
        sold     == \E k \in DOMAIN lastCall.before[3] :
                      lastCall.before[3][k].product_id = id
    IN  IF id \notin DOMAIN products
        THEN lastCall.error = "ProductNotFound" /\ StoreUnchanged
        ELSE /\ lastCall.error = "ProductHasSalesHistory" <=> sold
             /\ sold => StoreUnchanged /\ id \in DOMAIN productsTable
             /\ ~sold =>
                  /\ lastCall.error = "none"
                  /\ productsTable = [k \in (DOMAIN products) \ {id} |-> products[k]]
                  /\ salesTransactionsTable = lastCall.before[2]
                  /\ salesTransactionItemsTable = lastCall.before[3]

\* A deletion rejected for a product with exactly one line item, while the
\* other product has been deleted before.
C21_Witness ==
  /\ IsDeleteCall
  /\ lastCall.error = "ProductHasSalesHistory"
  /\ Cardinality(SalesItemsOf(salesTransactionItemsTable, lastCall.request.id)) = 1
  /\ Cardinality(DOMAIN productsTable) < MaxProducts

IsProductsWithSalesCall == lastCall.op = "getProductsWithSales"

\* The line items of the store that reference a product id.
LineItemsOf(id) ==
  {k \in DOMAIN salesTransactionItemsTable :
     salesTransactionItemsTable[k].product_id = id}

\* C22: getProductsWithSales returns every product exactly once, with the
\* product's fields, total_sold the sum of the quantities and total_revenue
\* the sum of the subtotals of the line items that reference it (both 0 for a
\* product never sold), and total_revenue never increases from one row to
\* the next.
C22_ProductsWithSalesExactAndOrdered ==
  IsProductsWithSalesCall =>
    LET rows == lastCall.result
    IN  /\ {rows[i].id : i \in DOMAIN rows} = DOMAIN productsTable
        /\ Len(rows) = Cardinality(DOMAIN productsTable)
        /\ \A i \in DOMAIN rows :
             /\ rows[i].name = productsTable[rows[i].id].name
             /\ rows[i].stock_quantity = productsTable[rows[i].id].stock_quantity
             /\ rows[i].price = ParseFloat(productsTable[rows[i].id].price)
             /\ rows[i].total_sold =
                  SumOver([k \in LineItemsOf(rows[i].id) |->
                             salesTransactionItemsTable[k].quantity],
                          LineItemsOf(rows[i].id))
             /\ rows[i].total_revenue =
                  ParseFloat(SumOver([k \in LineItemsOf(rows[i].id) |->
                                        salesTransactionItemsTable[k].subtotal],
                                     LineItemsOf(rows[i].id)))
             /\ LineItemsOf(rows[i].id) = {}
                  => rows[i].total_sold = 0 /\ rows[i].total_revenue = 0
        /\ \A i \in DOMAIN rows :
             i + 1 \in DOMAIN rows => rows[i].total_revenue >= rows[i + 1].total_revenue
        /\ StoreUnchanged

\* A listing of two products: the first sold on one line item of two units,
\* the second never sold.
C22_Witness ==
  /\ IsProductsWithSalesCall
  /\ Len(lastCall.result) = 2
  /\ Cardinality(LineItemsOf(lastCall.result[1].id)) = 1
  /\ lastCall.result[1].total_sold = 2
  /\ lastCall.result[1].total_revenue > 0
  /\ lastCall.result[2].total_sold = 0
  /\ lastCall.result[2].total_revenue = 0

\* The line items of the store that belong to a transaction.
LineItemsIn(t) ==
  {k \in DOMAIN salesTransactionItemsTable :
     salesTransactionItemsTable[k].transaction_id = t}

\* C24: every transaction in the store has at least one line item and a
\* total_amount greater than 0, and every line item belongs to a transaction
\* of the store; a createSalesTransaction that returns has written one header
\* and as many line items as the request had items, all of them carrying the
\* header's id, and one that throws has written neither.
C24_HeaderWithItemsAndPositiveTotal ==
  /\ \A t \in DOMAIN salesTransactionsTable :
       /\ LineItemsIn(t) # {}
       /\ salesTransactionsTable[t].total_amount > 0
  /\ \A k \in DOMAIN salesTransactionItemsTable :
       salesTransactionItemsTable[k].transaction_id \in DOMAIN salesTransactionsTable
  /\ SaleReturned =>
       \E t \in DOMAIN salesTransactionsTable :
         /\ (DOMAIN salesTransactionsTable) \ (DOMAIN lastCall.before[2]) = {t}
         /\ NewItems = LineItemsIn(t)
         /\ Cardinality(NewItems) = Len(lastCall.items)
  /\ (IsSale /\ ~SaleReturned) => StoreUnchanged

\* C25: a successful updateStock leaves the store as it was but for the
\* stock_quantity and updated_at of the product it names, which become the old
\* stock plus quantity_change and the time of the call: name, description,
\* price, min_stock_threshold and created_at of that product, every other
\* product, every header and every line item are as before, whatever the
\* reason given, and the product returned shows the same.
C25_UpdateStockFrame ==
  (IsStockCall /\ lastCall.error = "none") =>
    LET id     == StockCallId
        before == lastCall.before[1]
    IN  /\ DOMAIN productsTable = DOMAIN before
        /\ \A k \in (DOMAIN before) \ {id} : productsTable[k] = before[k]
        /\ productsTable[id].name = before[id].name
        /\ productsTable[id].description = before[id].description
        /\ productsTable[id].price = before[id].price
        /\ productsTable[id].min_stock_threshold = before[id].min_stock_threshold
        /\ productsTable[id].created_at = before[id].created_at
        /\ productsTable[id].stock_quantity = before[id].stock_quantity + StockCallChange
        /\ productsTable[id].updated_at = lastCall.at
        /\ DOMAIN productsTable[id] = DOMAIN before[id]
        /\ salesTransactionsTable = lastCall.before[2]
        /\ salesTransactionItemsTable = lastCall.before[3]
        /\ lastCall.result[1].description = before[id].description
        /\ lastCall.result[1].created_at = before[id].created_at
        /\ lastCall.result[1].name = before[id].name
        /\ lastCall.result[1].price = ParseFloat(before[id].price)

\* A stock increase with a reason, of a described product, beside another
\* product and a ledger of one sale.
C25_Witness ==
  /\ IsStockCall
  /\ lastCall.error = "none"
  /\ lastCall.request.reason # None
  /\ StockCallChange > 0
  /\ productsTable[StockCallId].description # None
  /\ productsTable[StockCallId].updated_at # productsTable[StockCallId].created_at
  /\ Cardinality(DOMAIN productsTable) = 2
  /\ salesTransactionItemsTable # EmptyTable

IsSalesTransactionsCall == lastCall.op = "getSalesTransactions"

\* The sum of a field over the rows of a listing.
TotalOfRevenue(rows) == SumSeq([i \in DOMAIN rows |-> rows[i].total_revenue])
TotalOfAmount(rows) == SumSeq([i \in DOMAIN rows |-> rows[i].total_amount])

UnitsSold(id) ==
  SumOver([k \in LineItemsOf(id) |-> salesTransactionItemsTable[k].quantity],
          LineItemsOf(id))

\* C27: with calls served one at a time and stock changed by sales and
\* updateStock only, the stock_quantity of every product is its initial stock
\* plus the quantity_change of the updateStock calls that succeeded on it
\* minus the quantities of the line items that reference it.
C27_StockIsInitialPlusChangesMinusSold ==
  \A id \in DOMAIN productsTable :
    productsTable[id].stock_quantity =
      lastCall.initial[id].stock_quantity + lastCall.applied[id] - UnitsSold(id)

\* A product restocked and sold on two transactions, its stock different
\* from the initial one, after a call that threw.
C27_Witness ==
  \E id \in DOMAIN productsTable :
    /\ lastCall.applied[id] > 0
    /\ Cardinality(LineItemsOf(id)) = 2
    /\ productsTable[id].stock_quantity # lastCall.initial[id].stock_quantity
    /\ lastCall.error # "none"

\* The page as it was when the last handler started.
ShownBefore == lastCall.before[4]

RequestFailed ==
  /\ lastCall.op \in {"handleSubmit", "handleStockUpdate"}
  /\ lastCall.error # "none"

\* C23: when the createSalesTransaction or updateStock request of a dialog
\* has failed, the page is as before: the cart keeps its items, the dialog is
\* still open, the stocks and the transactions shown are those shown before,
\* and no success is announced.
C23_FailedRequestLeavesPage ==
  RequestFailed =>
    /\ ui.cart = ShownBefore.cart
    /\ ui.isCreateDialogOpen = ShownBefore.isCreateDialogOpen
    /\ ui.isUpdateDialogOpen = ShownBefore.isUpdateDialogOpen
    /\ ui.products = ShownBefore.products
    /\ ui.transactions = ShownBefore.transactions
    /\ ui.alert # Some("Stok berhasil diperbarui (demo mode)")

\* C26: however a deleteProduct and a createSalesTransaction that names the
\* same product overlap, the committed tables never hold a line item whose
\* product_id has no row in products.
C26_NoLineItemWithoutProduct ==
  \A k \in DOMAIN salesTransactionItemsTable :
    salesTransactionItemsTable[k].product_id \in DOMAIN productsTable

\* What the calls that have returned did to product id: the change applied
\* by connection p's updateStock, the units sold by its sale.
AppliedBy(p, id) ==
  IF calls[p].pc = "stockDone" /\ calls[p].items[1].product_id = id
  THEN calls[p].items[1].quantity_change
  ELSE 0

AllReturned ==
  /\ \A p \in Procs : calls[p].pc \in {"done", "stockDone"}
  /\ \E p \in Procs : calls[p].pc = "stockDone"

\* C29: when an updateStock call has overlapped with a sale or with another
\* updateStock call and both have returned, the stock of every product is
\* its stock before the calls plus the changes applied minus the units sold.
C29_NoLostStockUpdate ==
  AllReturned =>
    \A id \in DOMAIN productsTable :
      productsTable[id].stock_quantity =
        ProductsBefore[id].stock_quantity
          + SumOver([p \in Procs |-> AppliedBy(p, id)], Procs)
          - SumOver([p \in Procs |-> SoldBy(p, id)], Procs)

\* C30: however sales and updateStock calls overlap, no product has a
\* negative stock_quantity, in the committed table or among the writes of an
\* open transaction, also where a call writes a value computed from a stock
\* that another call has changed since.
C30_OverlapKeepsStockNonNegative ==
  /\ \A id \in DOMAIN productsTable : productsTable[id].stock_quantity >= 0
  /\ \A p \in Procs : \A id \in DOMAIN calls[p].txStock : calls[p].txStock[id] >= 0

\* A sale and a stock decrease of the same product have both returned, each
\* having read the stock before the other wrote: the stock left is not the
\* stock before less the units sold and the units taken.
C30_Witness ==
  \E p, q \in Procs, id \in DOMAIN productsTable :
    /\ calls[p].pc = "done"
    /\ SoldBy(p, id) > 0
    /\ calls[q].pc = "stockDone"
    /\ AppliedBy(q, id) < 0
    /\ productsTable[id].stock_quantity #
         ProductsBefore[id].stock_quantity + AppliedBy(q, id) - SoldBy(p, id)

====
